---- MODULE Spec2Model ----
(***************************************************************************)
(* A model of the to-do application's data layer: the persistence adapter  *)
(* (services/storage.ts), the task store (stores/taskStore.ts) and the     *)
(* category store (stores/categoryStore.ts).                               *)
(*                                                                         *)
(* Encoding of JavaScript values.  A scalar field holds a TLA+ string.     *)
(* The booleans are written "true" and "false", an absent key and the      *)
(* value undefined are both written Undefined (JSON.stringify drops a key  *)
(* whose value is undefined, so the two are the same thing once stored),   *)
(* and every other string is that JavaScript string ("" is the empty       *)
(* string).  No string field of the model ever holds the text "true",      *)
(* "false" or "undefined".  An optional array (Task.subtasks) is None when *)
(* the key is absent and Some(s) when it holds the array s.                *)
(* Chinese string constants of the source are transliterated, the original *)
(* is given in a comment where the constant is defined.                    *)
(***************************************************************************)
EXTENDS Integers, Sequences, FiniteSets, TLC

VARIABLES
    tasks,          \* useTaskStore state: tasks
    categories,     \* useCategoryStore state: categories
    localStorage,   \* the browser's localStorage, one slot per STORAGE_KEYS entry
    now,            \* the clock read by Date.now() and new Date()
    writeFailures,  \* how many writes to localStorage have failed so far
    last,           \* the operation that ran last, its arguments and its outcome
    preImport,      \* what getTasks()/getCategories() returned before the last importData
    filters,        \* useTaskStore state: searchQuery, selectedCategory, filterStatus,
                    \* sortBy, sortOrder
    validation,     \* the value handed to DataValidator.validateTask and what it returned
    calls,          \* the task store's calls that are suspended at an await
    hook            \* the useTasks hook: its state and the renders of its component

vars == <<tasks, categories, localStorage, now, writeFailures, last, preImport, filters,
          validation, calls, hook>>

\* the variables of the validator, the suspended calls and the hook
others == <<validation, calls, hook>>

----------------------------------------------------------------------------
(* Bounds of the model *)

MaxTasks == 2        \* addTask is not called when the store holds this many tasks
MaxCategories == 2   \* addCategory / bulkAddCategories stop at this many categories
MaxTicks == 1        \* the clock advances at most this many milliseconds
MaxWriteFailures == 1 \* at most this many writes to localStorage fail in a run
MaxStatTasks == 40   \* the largest collection whose statistics are computed
MaxViewTasks == 3    \* the largest collection that is filtered and sorted
MaxCalls == 2        \* at most this many calls of the task store overlap
MaxHookCalls == 3    \* the callbacks of the useTasks hook are called at most this often

----------------------------------------------------------------------------
(* JavaScript values *)

Undefined == "undefined"

None == <<>>
Some(x) == <<x>>

\* the values JavaScript treats as false in `a || b`, `!a` and Boolean(a)
Null == "null"
Falsy(v) == v \in {"", Undefined, Null, "false"}

\* a || d
Or(v, d) == IF Falsy(v) THEN d ELSE v

\* Boolean(v)
Boolean(v) == IF Falsy(v) THEN "false" ELSE "true"

\* !v
Not(v) == IF Falsy(v) THEN "true" ELSE "false"

\* { ...t, ...u }: the keys of u override those of t
Spread(t, u) == [f \in DOMAIN t |-> IF f \in DOMAIN u THEN u[f] ELSE t[f]]

\* Date.now().toString() and new Date().toISOString() at clock reading t
StartTime == 100
DateNowString(t) == ToString(StartTime + t)
ISOString(t) == ToString(StartTime + t)

RECURSIVE FilterIdx(_, _)
\* array.filter(pred), pred given as the set of indexes of s it accepts: the
\* accepted elements in their order in s
FilterIdx(s, keep) ==
    IF s = <<>> THEN <<>>
    ELSE LET rest == FilterIdx(Tail(s), {i - 1 : i \in keep \ {1}})
         IN  IF 1 \in keep THEN <<Head(s)>> \o rest ELSE rest

----------------------------------------------------------------------------
(* services/storage.ts: LocalStorageService *)

\* '未命名任务', '其他', '未命名分类'
UnnamedTask == "weimingming-renwu"
OtherCategory == "qita"
UnnamedCategory == "weimingming-fenlei"
DefaultGray == "#6B7280"

\* '工作', '学习', '生活', '购物', '其他'
DEFAULT_CATEGORIES == <<
    [id |-> "1", name |-> "gongzuo", color |-> "#3B82F6"],
    [id |-> "2", name |-> "xuexi",   color |-> "#10B981"],
    [id |-> "3", name |-> "shenghuo", color |-> "#F59E0B"],
    [id |-> "4", name |-> "gouwu",   color |-> "#EF4444"],
    [id |-> "5", name |-> "qita",    color |-> "#6B7280"] >>

\* A slot of localStorage.  kind says what the stored text is:
\*   "absent"    no item (getItem returns null)
\*   "corrupt"   text that JSON.parse rejects
\*   "primitive" JSON text of a number, a string, a boolean or null
\*   "object"    JSON text of a non-array object, val is the parsed object
\*   "array"     JSON text of an array, val is the parsed array
Absent == [kind |-> "absent", val |-> <<>>]

\* JSON.stringify of an array, as the slot that then holds it
StringifyArray(a) == [kind |-> "array", val |-> a]
\* JSON.stringify of a non-array object
StringifyObject(o) == [kind |-> "object", val |-> o]

\* validateData(data, defaultValue) for an array default
ValidateArray_AnyObject(slot, defaultValue) ==
    IF slot.kind = "primitive" THEN defaultValue ELSE slot.val

ValidateArray(slot, defaultValue) ==
    IF slot.kind = "primitive" THEN defaultValue
    ELSE IF slot.kind = "array" THEN slot.val ELSE defaultValue

\* getItem<T[]>(key, defaultValue)
GetItemArray_EmptyAsMissing(ls, key, defaultValue) ==
    IF ls[key].kind = "absent" THEN defaultValue
    ELSE IF ls[key].kind = "corrupt" THEN defaultValue
    ELSE IF ls[key].val = <<>> THEN defaultValue
    ELSE ValidateArray(ls[key], defaultValue)

GetItemArray(ls, key, defaultValue) ==
    IF ls[key].kind = "absent" THEN defaultValue
    ELSE IF ls[key].kind = "corrupt" THEN defaultValue
    ELSE ValidateArray(ls[key], defaultValue)

\* setItem(key, value): ok = FALSE is JSON.stringify or localStorage.setItem
\* throwing (quota exceeded); the stored item is then left as it was
SetItem_NoThrow(ls, key, slot, ok) ==
    [storage |-> IF ok THEN [ls EXCEPT ![key] = slot] ELSE ls, threw |-> FALSE]

SetItem(ls, key, slot, ok) ==
    [storage |-> IF ok THEN [ls EXCEPT ![key] = slot] ELSE ls, threw |-> ~ok]

\* getTasks()
GetTasks(ls) == GetItemArray(ls, "TASKS", <<>>)

\* the record saveTasks builds for one task
ValidatedTask_FreshId(task, t) ==
    [id          |-> DateNowString(t),
     title       |-> Or(task.title, UnnamedTask),
     description |-> Or(task.description, ""),
     category    |-> Or(task.category, OtherCategory),
     priority    |-> Or(task.priority, "medium"),
     dueDate     |-> Or(task.dueDate, Undefined),
     completed   |-> Boolean(task.completed),
     createdAt   |-> Or(task.createdAt, ISOString(t)),
     subtasks    |-> None]

ValidatedTask(task, t) ==
    [id          |-> Or(task.id, DateNowString(t)),
     title       |-> Or(task.title, UnnamedTask),
     description |-> Or(task.description, ""),
     category    |-> Or(task.category, OtherCategory),
     priority    |-> Or(task.priority, "medium"),
     dueDate     |-> Or(task.dueDate, Undefined),
     completed   |-> Boolean(task.completed),
     createdAt   |-> Or(task.createdAt, ISOString(t)),
     subtasks    |-> None]

\* saveTasks(tasks)
SaveTasks(ls, ts, t, ok) ==
    SetItem(ls, "TASKS",
            StringifyArray([i \in 1..Len(ts) |-> ValidatedTask(ts[i], t)]), ok)

\* getCategories()
GetCategories(ls) == GetItemArray(ls, "CATEGORIES", DEFAULT_CATEGORIES)

\* the record saveCategories builds for one category
ValidatedCategory(category, t) ==
    [id    |-> Or(category.id, DateNowString(t)),
     name  |-> Or(category.name, UnnamedCategory),
     color |-> Or(category.color, DefaultGray)]

\* saveCategories(categories)
SaveCategories(ls, cs, t, ok) ==
    SetItem(ls, "CATEGORIES",
            StringifyArray([i \in 1..Len(cs) |-> ValidatedCategory(cs[i], t)]), ok)

\* exportData() at clock reading t
ExportData(ls, t) ==
    [tasks |-> GetTasks(ls), categories |-> GetCategories(ls),
     exportTime |-> ISOString(t), version |-> "1.0.0"]

\* the backup slot when it holds no item
NoBackup ==
    [kind |-> "absent",
     val |-> [tasks |-> <<>>, categories |-> <<>>, exportTime |-> "", version |-> ""]]

\* createBackup(): currentData = await this.exportData(); setItem(BACKUP, currentData)
CreateBackup_AfterClear(ls, t, ok) ==
    SetItem(ls, "BACKUP",
            StringifyObject(ExportData([ls EXCEPT !.TASKS = Absent, !.CATEGORIES = Absent], t)),
            ok)

CreateBackup(ls, t, ok) ==
    SetItem(ls, "BACKUP", StringifyObject(ExportData(ls, t)), ok)

\* An import payload (the parsed JSON file).  top is what the top-level value
\* is: "null", "primitive" (a number, string or boolean), "array" or "object".
\* tasks and categories say what the key holds: kind "missing" (no such key),
\* "notArray" (a value that is not an array) or "array" (val is the array).
EmptyArray == [kind |-> "array", val |-> <<>>]

\* const { tasks = [], categories = [] } = data
BundleTasks(data) ==
    IF data.top = "array" \/ data.tasks.kind = "missing" THEN EmptyArray ELSE data.tasks

BundleCategories(data) ==
    IF data.top = "array" \/ data.categories.kind = "missing"
    THEN EmptyArray ELSE data.categories

\* the checks at the head of importData: the message of the error thrown, ""
\* when none is
ImportFormatError_NoArrayCheck(data) ==
    IF data.top \in {"null", "primitive"} THEN "Invalid import data format" ELSE ""

ImportFormatError_Strict(data) ==
    IF data.top \in {"null", "primitive"} THEN "Invalid import data format"
    ELSE IF data.top = "array" \/ data.tasks.kind # "array" THEN "Tasks must be an array"
    ELSE IF data.categories.kind # "array" THEN "Categories must be an array"
    ELSE ""

ImportFormatError(data) ==
    IF data.top \in {"null", "primitive"} THEN "Invalid import data format"
    ELSE IF BundleTasks(data).kind # "array" THEN "Tasks must be an array"
    ELSE IF BundleCategories(data).kind # "array" THEN "Categories must be an array"
    ELSE ""

\* saveTasks / saveCategories called with a value that may not be an array:
\* value.map is then not a function, and the call throws before it writes
SaveTasksValue(ls, slot, t, ok) ==
    IF slot.kind = "array" THEN SaveTasks(ls, slot.val, t, ok)
    ELSE [storage |-> ls, threw |-> TRUE]

SaveCategoriesValue(ls, slot, t, ok) ==
    IF slot.kind = "array" THEN SaveCategories(ls, slot.val, t, ok)
    ELSE [storage |-> ls, threw |-> TRUE]

\* await Promise.all([this.saveTasks(tasks), this.saveCategories(categories)]):
\* both calls run, in this order, whether or not the first one throws
SaveBoth(ls, tasksSlot, categoriesSlot, t, okT, okC) ==
    LET wt == SaveTasksValue(ls, tasksSlot, t, okT)
        wc == SaveCategoriesValue(wt.storage, categoriesSlot, t, okC)
    IN  [storage |-> wc.storage, threw |-> wt.threw \/ wc.threw]

----------------------------------------------------------------------------
(* Inputs *)

SubA == [id |-> "s1", title |-> "step", completed |-> "false"]

\* the task data addTask is called with
TaskInputs == <<
    \* App.handleAddTask: no description, no due date, one subtask
    [id |-> Undefined, title |-> "Buy milk", description |-> "",
     category |-> "gouwu", priority |-> "low", dueDate |-> "",
     completed |-> "false", createdAt |-> Undefined, subtasks |-> Some(<<SubA>>)],
    \* a Task of types/index.ts: every field set, no subtasks key
    [id |-> Undefined, title |-> "Read", description |-> "notes",
     category |-> "xuexi", priority |-> "medium", dueDate |-> "2024-01-01",
     completed |-> "false", createdAt |-> Undefined, subtasks |-> None] >>

\* the partial updates updateTask / bulkUpdateTasks are called with
TaskUpdates == <<
    [completed |-> "true"],
    \* App.handleAddSubtask
    [subtasks |-> Some(<<SubA>>)] >>

\* partial updates (Partial<Task>) that name the fields addTask sets
CreationFieldUpdates == <<
    [createdAt |-> "1999"],
    [id |-> "7"] >>

\* the ids operations are called with: every id the clock can produce and one
\* that no task has
MissingId == "404"
IdPool == {DateNowString(t) : t \in 0..MaxTicks} \cup {MissingId}

NoArgs == [id |-> "", ids |-> {}, idx |-> 0, flag |-> "false"]

\* the filter and sort state the task store is created with, and clearFilters sets
\* nothing validated, no call suspended, the hook not mounted
NoValidation == [step |-> "none"]
NoCalls == <<>>
NoHook == [mounted |-> FALSE]

DefaultFilters ==
    [searchQuery |-> "", selectedCategory |-> Null, filterStatus |-> "all",
     sortBy |-> "createdAt", sortOrder |-> "desc"]

Done(op, outcome, wfail, args) ==
    [op |-> op, outcome |-> outcome, wfail |-> wfail, id |-> args.id,
     ids |-> args.ids, idx |-> args.idx, flag |-> args.flag]

Outcome(threw) == IF threw THEN "rejected" ELSE "ok"

\* whether a write may fail now: TRUE is the write succeeding
WriteOutcomes == IF writeFailures < MaxWriteFailures THEN {TRUE, FALSE} ELSE {TRUE}
Failed(ok) == IF ok THEN 0 ELSE 1

----------------------------------------------------------------------------
(* Initial state: both stores as constructed, nothing stored *)

Init ==
    /\ tasks = <<>>
    /\ categories = <<>>
    /\ localStorage = [TASKS |-> Absent, CATEGORIES |-> Absent,
                       SETTINGS |-> Absent,
                       BACKUP |-> NoBackup]
    /\ now = 0
    /\ writeFailures = 0
    /\ last = Done("init", "ok", FALSE, NoArgs)
    /\ preImport = [valid |-> FALSE, tasks |-> <<>>, categories |-> <<>>]
    /\ filters = DefaultFilters
    /\ validation = NoValidation
    /\ calls = NoCalls
    /\ hook = NoHook

\* time passes
Tick ==
    /\ now < MaxTicks
    /\ now' = now + 1
    /\ last' = Done("tick", "ok", FALSE, NoArgs)
    /\ UNCHANGED <<tasks, categories, localStorage, writeFailures, preImport, filters, others>>

----------------------------------------------------------------------------
(* stores/taskStore.ts: useTaskStore *)

\* the body shared by the mutations: set(...) the new collection, then
\* await storageService.saveTasks(get().tasks); catch rethrows
MutateThenSave_SkipsUnchanged(op, newTasks, args) ==
    \E ok \in IF newTasks = tasks THEN {TRUE} ELSE WriteOutcomes :
        LET w == SaveTasks(localStorage, newTasks, now, ok) IN
        /\ tasks' = newTasks
        /\ localStorage' = IF newTasks = tasks THEN localStorage ELSE w.storage
        /\ writeFailures' = writeFailures + Failed(ok)
        /\ last' = Done(op, Outcome(w.threw), ~ok, args)
        /\ UNCHANGED <<categories, now, preImport, filters, others>>

MutateThenSave(op, newTasks, args) ==
    \E ok \in WriteOutcomes :
        LET w == SaveTasks(localStorage, newTasks, now, ok) IN
        /\ tasks' = newTasks
        /\ localStorage' = w.storage
        /\ writeFailures' = writeFailures + Failed(ok)
        /\ last' = Done(op, Outcome(w.threw), ~ok, args)
        /\ UNCHANGED <<categories, now, preImport, filters, others>>

AddTaskMem(ts, taskData, t) ==
    Append(ts, [taskData EXCEPT !.id = DateNowString(t), !.createdAt = ISOString(t)])

AddTask ==
    /\ Len(tasks) < MaxTasks
    /\ \E i \in 1..Len(TaskInputs) :
        MutateThenSave("addTask", AddTaskMem(tasks, TaskInputs[i], now),
                       [NoArgs EXCEPT !.idx = i])

UpdateTaskMem_AllTasks(ts, id, updates) ==
    [i \in 1..Len(ts) |-> Spread(ts[i], updates)]

UpdateTaskMem(ts, id, updates) ==
    [i \in 1..Len(ts) |-> IF ts[i].id = id THEN Spread(ts[i], updates) ELSE ts[i]]

UpdateTask ==
    \E id \in IdPool, i \in 1..Len(TaskUpdates) :
        MutateThenSave("updateTask", UpdateTaskMem(tasks, id, TaskUpdates[i]),
                       [NoArgs EXCEPT !.id = id, !.idx = i])

\* updateTask(id, updates) with an update that names id or createdAt
UpdateTaskCreationFields ==
    \E id \in IdPool, i \in 1..Len(CreationFieldUpdates) :
        MutateThenSave("updateTask", UpdateTaskMem(tasks, id, CreationFieldUpdates[i]),
                       [NoArgs EXCEPT !.id = id, !.idx = Len(TaskUpdates) + i])

DeleteTaskMem(ts, id) == FilterIdx(ts, {i \in 1..Len(ts) : ts[i].id # id})

DeleteTask ==
    \E id \in IdPool :
        MutateThenSave("deleteTask", DeleteTaskMem(tasks, id),
                       [NoArgs EXCEPT !.id = id])

\* tasks.find(t => t.id === id): the index of the first task with that id, 0
\* when there is none
FindTask(ts, id) ==
    LET found == {i \in 1..Len(ts) : ts[i].id = id}
    IN  IF found = {} THEN 0 ELSE CHOOSE i \in found : \A j \in found : i <= j

\* the collection toggleTask(id) leaves in memory
ToggleTaskMem(ts, id) ==
    IF FindTask(ts, id) = 0 THEN ts
    ELSE UpdateTaskMem(ts, id, [completed |-> Not(ts[FindTask(ts, id)].completed)])

\* toggleTask(id): find the task; when there is one, updateTask(id, {completed: !completed})
ToggleTask ==
    \E id \in IdPool :
        IF FindTask(tasks, id) = 0
        THEN /\ last' = Done("toggleTask", "ok", FALSE, [NoArgs EXCEPT !.id = id])
             /\ UNCHANGED <<tasks, categories, localStorage, now, writeFailures, preImport, filters, others>>
        ELSE MutateThenSave("toggleTask", ToggleTaskMem(tasks, id),
                            [NoArgs EXCEPT !.id = id])

ToggleAllTasksMem(ts, completed) ==
    [i \in 1..Len(ts) |-> [ts[i] EXCEPT !.completed = completed]]

ToggleAllTasks ==
    \E completed \in {"true", "false"} :
        MutateThenSave("toggleAllTasks", ToggleAllTasksMem(tasks, completed),
                       [NoArgs EXCEPT !.flag = completed])

\* tasks.filter(task => !task.completed)
ClearCompletedMem(ts) == FilterIdx(ts, {i \in 1..Len(ts) : Falsy(ts[i].completed)})

ClearCompleted == MutateThenSave("clearCompleted", ClearCompletedMem(tasks), NoArgs)

DeleteCompleted == MutateThenSave("deleteCompleted", ClearCompletedMem(tasks), NoArgs)

BulkUpdateTasksMem(ts, ids, updates) ==
    [i \in 1..Len(ts) |-> IF ts[i].id \in ids THEN Spread(ts[i], updates) ELSE ts[i]]

BulkUpdateTasks ==
    \E ids \in SUBSET IdPool, i \in 1..Len(TaskUpdates) :
        MutateThenSave("bulkUpdateTasks", BulkUpdateTasksMem(tasks, ids, TaskUpdates[i]),
                       [NoArgs EXCEPT !.ids = ids, !.idx = i])

\* bulkUpdateTasks(ids, updates) with an update that names id or createdAt
BulkUpdateTasksCreationFields ==
    \E ids \in SUBSET IdPool, i \in 1..Len(CreationFieldUpdates) :
        MutateThenSave("bulkUpdateTasks",
                       BulkUpdateTasksMem(tasks, ids, CreationFieldUpdates[i]),
                       [NoArgs EXCEPT !.ids = ids, !.idx = Len(TaskUpdates) + i])

BulkDeleteTasksMem(ts, ids) == FilterIdx(ts, {i \in 1..Len(ts) : ts[i].id \notin ids})

BulkDeleteTasks ==
    \E ids \in SUBSET IdPool :
        MutateThenSave("bulkDeleteTasks", BulkDeleteTasksMem(tasks, ids),
                       [NoArgs EXCEPT !.ids = ids])

\* loadTasks(): tasks = await storageService.getTasks(); set({ tasks })
LoadTasks ==
    /\ tasks' = GetTasks(localStorage)
    /\ last' = Done("loadTasks", "ok", FALSE, NoArgs)
    /\ UNCHANGED <<categories, localStorage, now, writeFailures, preImport, filters, others>>

\* the body shared by importTasks and resetTasks: await saveTasks(newTasks),
\* then set({ tasks: newTasks }); a failed write skips the set
SaveThenSet_SetsAnyway(op, newTasks, args) ==
    \E ok \in WriteOutcomes :
        LET w == SaveTasks(localStorage, newTasks, now, ok) IN
        /\ tasks' = newTasks
        /\ localStorage' = w.storage
        /\ writeFailures' = writeFailures + Failed(ok)
        /\ last' = Done(op, Outcome(w.threw), ~ok, args)
        /\ UNCHANGED <<categories, now, preImport, filters, others>>

SaveThenSet(op, newTasks, args) ==
    \E ok \in WriteOutcomes :
        LET w == SaveTasks(localStorage, newTasks, now, ok) IN
        /\ tasks' = IF w.threw THEN tasks ELSE newTasks
        /\ localStorage' = w.storage
        /\ writeFailures' = writeFailures + Failed(ok)
        /\ last' = Done(op, Outcome(w.threw), ~ok, args)
        /\ UNCHANGED <<categories, now, preImport, filters, others>>

\* the task lists importTasks is called with
ImportedTask ==
    [id |-> "7", title |-> "Imported", description |-> Undefined,
     category |-> "gongzuo", priority |-> "high", dueDate |-> Undefined,
     completed |-> "true", createdAt |-> "2023", subtasks |-> None]
TaskLists == << <<ImportedTask>> >>

ImportTasks ==
    \E i \in 1..Len(TaskLists) :
        SaveThenSet("importTasks", TaskLists[i], [NoArgs EXCEPT !.idx = i])

ResetTasks == SaveThenSet("resetTasks", <<>>, NoArgs)

----------------------------------------------------------------------------
(* stores/taskStore.ts: the calls in time.  An async function runs without   *)
(* interruption up to its first await.  setItem and getItem have no await,   *)
(* so localStorage is written, or read, inside the call that starts the      *)
(* operation: a mutation has set the collection and written it when it is    *)
(* suspended at `await storageService.saveTasks(...)`, and what is left for  *)
(* its resumption is the finally block and the settling of its promise;      *)
(* loadTasks has read storage when it is suspended at `await                 *)
(* storageService.getTasks()` and sets the collection when it is resumed.    *)
(* Other calls can start while a call is suspended.  calls holds the calls   *)
(* started since the store was last idle, in the order they were started.    *)

Suspended(op, outcome, wfail, args, read) ==
    [op |-> op, outcome |-> outcome, wfail |-> wfail, args |-> args, at |-> now,
     before |-> tasks, read |-> read, settled |-> FALSE]

\* the calls that count: none once every call has settled
Burst == IF \A i \in DOMAIN calls : calls[i].settled THEN <<>> ELSE calls

\* a mutation up to its await: set(...) and the write of saveTasks(get().tasks)
StartMutation(op, newTasks, args) ==
    /\ Len(Burst) < MaxCalls
    /\ \E ok \in WriteOutcomes :
        LET w == SaveTasks(localStorage, newTasks, now, ok) IN
        /\ tasks' = newTasks
        /\ localStorage' = w.storage
        /\ writeFailures' = writeFailures + Failed(ok)
        /\ calls' = Append(Burst, Suspended(op, Outcome(w.threw), ~ok, args, <<>>))
        /\ last' = Done(op, "pending", ~ok, args)
        /\ UNCHANGED <<categories, now, preImport, filters, validation, hook>>

StartAddTask ==
    /\ Len(tasks) < MaxTasks
    /\ \E i \in 1..Len(TaskInputs) :
        StartMutation("addTask", AddTaskMem(tasks, TaskInputs[i], now),
                      [NoArgs EXCEPT !.idx = i])

StartUpdateTask ==
    \E id \in IdPool, i \in 1..Len(TaskUpdates) :
        StartMutation("updateTask", UpdateTaskMem(tasks, id, TaskUpdates[i]),
                      [NoArgs EXCEPT !.id = id, !.idx = i])

StartDeleteTask ==
    \E id \in IdPool :
        StartMutation("deleteTask", DeleteTaskMem(tasks, id), [NoArgs EXCEPT !.id = id])

\* loadTasks up to its await: getTasks() has read storage
StartLoadTasks ==
    /\ Len(Burst) < MaxCalls
    /\ calls' = Append(Burst, Suspended("loadTasks", "ok", FALSE, NoArgs,
                                        GetTasks(localStorage)))
    /\ last' = Done("loadTasks", "pending", FALSE, NoArgs)
    /\ UNCHANGED <<tasks, categories, localStorage, now, writeFailures, preImport,
                   filters, validation, hook>>

\* a suspended call is resumed and settles; loadTasks sets what it read.  The
\* order in which suspended calls are resumed is left open.
Resume_SetsItsResult ==
    \E i \in DOMAIN calls :
        /\ ~calls[i].settled
        /\ calls' = [calls EXCEPT ![i].settled = TRUE]
        /\ tasks' = IF calls[i].op = "loadTasks" THEN calls[i].read
                    ELSE IF calls[i].op = "addTask"
                    THEN AddTaskMem(calls[i].before, TaskInputs[calls[i].args.idx], calls[i].at)
                    ELSE IF calls[i].op = "updateTask"
                    THEN UpdateTaskMem(calls[i].before, calls[i].args.id,
                                       TaskUpdates[calls[i].args.idx])
                    ELSE DeleteTaskMem(calls[i].before, calls[i].args.id)
        /\ last' = Done(calls[i].op, calls[i].outcome, calls[i].wfail, calls[i].args)
        /\ UNCHANGED <<categories, localStorage, now, writeFailures, preImport, filters,
                       validation, hook>>

Resume ==
    \E i \in DOMAIN calls :
        /\ ~calls[i].settled
        /\ calls' = [calls EXCEPT ![i].settled = TRUE]
        /\ tasks' = IF calls[i].op = "loadTasks" THEN calls[i].read ELSE tasks
        /\ last' = Done(calls[i].op, calls[i].outcome, calls[i].wfail, calls[i].args)
        /\ UNCHANGED <<categories, localStorage, now, writeFailures, preImport, filters,
                       validation, hook>>

----------------------------------------------------------------------------
(* hooks/useStorage.ts: useTasks over useStorageState.  hook.state is the    *)
(* React state, hook.rendered is the value of `tasks` the callbacks of the   *)
(* latest render closed over, and hook.saves holds the calls of save()       *)
(* started since the hook was last idle: save(value) has written storage     *)
(* when it is suspended at `await saveFn(value)` and calls setState(value)   *)
(* when it is resumed.                                                       *)

MountedHook ==
    [mounted |-> TRUE, state |-> <<>>, rendered |-> <<>>, saves |-> <<>>, started |-> 0]

SuspendedSave(op, args, value, threw, wfail) ==
    [op |-> op, args |-> args, at |-> now, before |-> hook.rendered, value |-> value,
     threw |-> threw, wfail |-> wfail, settled |-> FALSE]

HookBurst == IF \A i \in DOMAIN hook.saves : hook.saves[i].settled THEN <<>> ELSE hook.saves

\* a callback of useTasks up to the await in save(): updatedTasks is computed
\* from the rendered tasks and handed to saveFn, which writes it
HookSave(op, updatedTasks, args) ==
    /\ hook.mounted
    /\ Len(HookBurst) < MaxCalls
    /\ hook.started < MaxHookCalls
    /\ \E ok \in WriteOutcomes :
        LET w == SaveTasks(localStorage, updatedTasks, now, ok) IN
        /\ localStorage' = w.storage
        /\ writeFailures' = writeFailures + Failed(ok)
        /\ hook' = [hook EXCEPT !.started = @ + 1,
                                !.saves = Append(HookBurst,
                                    SuspendedSave(op, args, updatedTasks, w.threw, ~ok))]
        /\ last' = Done(op, "pending", ~ok, args)
        /\ UNCHANGED <<tasks, categories, now, preImport, filters, validation, calls>>

HookAddTask ==
    /\ hook.mounted
    /\ Len(hook.rendered) < MaxTasks
    /\ \E i \in 1..Len(TaskInputs) :
        HookSave("addTask", AddTaskMem(hook.rendered, TaskInputs[i], now),
                 [NoArgs EXCEPT !.idx = i])

HookUpdateTask ==
    /\ hook.mounted
    /\ \E id \in IdPool, i \in 1..Len(TaskUpdates) :
        HookSave("updateTask", UpdateTaskMem(hook.rendered, id, TaskUpdates[i]),
                 [NoArgs EXCEPT !.id = id, !.idx = i])

HookDeleteTask ==
    /\ hook.mounted
    /\ \E id \in IdPool :
        HookSave("deleteTask", DeleteTaskMem(hook.rendered, id), [NoArgs EXCEPT !.id = id])

\* save() is resumed: setState(value), or the catch when saveFn threw
HookResume ==
    /\ hook.mounted
    /\ \E i \in DOMAIN hook.saves :
        /\ ~hook.saves[i].settled
        /\ hook' = [hook EXCEPT !.saves[i].settled = TRUE,
                                !.state = IF hook.saves[i].threw THEN @
                                          ELSE hook.saves[i].value]
        /\ last' = Done(hook.saves[i].op, Outcome(hook.saves[i].threw),
                        hook.saves[i].wfail, hook.saves[i].args)
        /\ UNCHANGED <<tasks, categories, localStorage, now, writeFailures, preImport,
                       filters, validation, calls>>

\* the component renders again: the callbacks now close over the new state
Render ==
    /\ hook.mounted
    /\ hook.rendered # hook.state
    /\ hook' = [hook EXCEPT !.rendered = hook.state]
    /\ last' = Done("render", "ok", FALSE, NoArgs)
    /\ UNCHANGED <<tasks, categories, localStorage, now, writeFailures, preImport,
                   filters, validation, calls>>

----------------------------------------------------------------------------
(* utils/storageUtils.ts: StorageStats.calculateTaskStats, and the numbers   *)
(* it computes with.  A JavaScript number is an IEEE 754 double.  A double   *)
(* that is not negative is written [bits, scale]: bits is its significand as *)
(* a sequence of binary digits, most significant first, with bits[1] = 1 and *)
(* at most MantissaBits digits, and the value is that binary number divided  *)
(* by 2^scale.  Zero is the empty significand.                               *)

MantissaBits == 53

\* the arithmetic below works on ChunkBits binary digits at a time, which keeps
\* every intermediate integer below 2^31 for divisors below 2^12
ChunkBits == 18

ZeroDouble == [bits |-> <<>>, scale |-> 0]

RECURSIVE BitsToNat(_)
\* the number a digit sequence writes (at most ChunkBits digits)
BitsToNat(bits) ==
    IF bits = <<>> THEN 0
    ELSE 2 * BitsToNat(SubSeq(bits, 1, Len(bits) - 1)) + bits[Len(bits)]

\* the ChunkBits binary digits of n < 2^ChunkBits, most significant first
ChunkDigits(n) == [j \in 1..ChunkBits |-> (n \div 2^(ChunkBits - j)) % 2]

\* bits without the zeros in front
StripLeadingZeros(bits) ==
    LET ones == {i \in 1..Len(bits) : bits[i] = 1}
    IN  IF ones = {} THEN <<>>
        ELSE SubSeq(bits, CHOOSE i \in ones : \A j \in ones : i <= j, Len(bits))

\* bits + 1; one digit longer when every digit of bits is 1
Increment(bits) ==
    LET zeros == {i \in 1..Len(bits) : bits[i] = 0}
    IN  IF zeros = {} THEN <<1>> \o [i \in 1..Len(bits) |-> 0]
        ELSE LET last0 == CHOOSE i \in zeros : \A j \in zeros : j <= i
             IN  [i \in 1..Len(bits) |->
                    IF i < last0 THEN bits[i] ELSE IF i = last0 THEN 1 ELSE 0]

\* the double nearest to the binary number bits / 2^scale (bits[1] = 1), ties
\* to the even significand; sticky says that digits beyond bits are not all 0
RoundToDouble(bits, sticky, scale) ==
    IF Len(bits) <= MantissaBits THEN [bits |-> bits, scale |-> scale]
    ELSE LET head == SubSeq(bits, 1, MantissaBits)
             guard == bits[MantissaBits + 1]
             rest == sticky \/ \E i \in (MantissaBits + 2)..Len(bits) : bits[i] = 1
             up == guard = 1 /\ (rest \/ head[MantissaBits] = 1)
             kept == IF up THEN Increment(head) ELSE head
             dropped == Len(bits) - MantissaBits
         IN  IF Len(kept) > MantissaBits
             THEN [bits |-> SubSeq(kept, 1, MantissaBits), scale |-> scale - dropped - 1]
             ELSE [bits |-> kept, scale |-> scale - dropped]

\* rem / d for 0 < rem < d: how many 0 digits follow the binary point before
\* the first 1
LeadingZeros(rem, d) ==
    CHOOSE z \in 0..12 : rem * 2^z < d /\ rem * 2^(z + 1) >= d

\* the first 3 * ChunkBits binary digits of rem / d after the point, for
\* 0 <= rem < d, and the remainder after them
Expand(rem, d) ==
    LET n1 == rem * 2^ChunkBits
        n2 == (n1 % d) * 2^ChunkBits
        n3 == (n2 % d) * 2^ChunkBits
    IN  [bits |-> ChunkDigits(n1 \div d) \o ChunkDigits(n2 \div d)
                    \o ChunkDigits(n3 \div d),
         rem |-> n3 % d]

\* n / d in double arithmetic, for integers 0 <= n and 0 < d < 2^12 with
\* n \div d < 2^ChunkBits
Divide(n, d) ==
    IF n = 0 THEN ZeroDouble
    ELSE LET int == StripLeadingZeros(ChunkDigits(n \div d))
         IN  IF int # <<>>
             THEN LET frac == Expand(n % d, d)
                  IN  RoundToDouble(int \o frac.bits, frac.rem # 0, 3 * ChunkBits)
             ELSE LET zeros == LeadingZeros(n, d)
                      frac == Expand(n * 2^zeros, d)
                  IN  RoundToDouble(frac.bits, frac.rem # 0, zeros + 3 * ChunkBits)

\* x * 100 in double arithmetic
TimesHundred(x) ==
    IF x.bits = <<>> THEN ZeroDouble
    ELSE LET digits == [i \in 1..(3 * ChunkBits - Len(x.bits)) |-> 0] \o x.bits
             limb(k) == BitsToNat(SubSeq(digits, (k - 1) * ChunkBits + 1, k * ChunkBits))
             p3 == limb(3) * 100
             p2 == limb(2) * 100 + p3 \div 2^ChunkBits
             p1 == limb(1) * 100 + p2 \div 2^ChunkBits
             product == ChunkDigits(p1 \div 2^ChunkBits) \o ChunkDigits(p1 % 2^ChunkBits)
                          \o ChunkDigits(p2 % 2^ChunkBits) \o ChunkDigits(p3 % 2^ChunkBits)
         IN  RoundToDouble(StripLeadingZeros(product), FALSE, x.scale)

\* Math.round(x) for 0 <= x < 2^ChunkBits: the integer nearest to x, a tie
\* going up
MathRound(x) ==
    LET whole == Len(x.bits) - x.scale   \* how many digits stand before the point
    IN  IF x.bits = <<>> \/ whole < 0 THEN 0
        ELSE IF x.scale <= 0 THEN BitsToNat(x.bits) * 2^(0 - x.scale)
        ELSE BitsToNat(SubSeq(x.bits, 1, whole)) + x.bits[whole + 1]

\* calculateTaskStats(tasks); overdue and today, which read the wall clock,
\* and byCategory are left out
CalculateTaskStats(ts) ==
    LET total == Len(ts)
        completed == Cardinality({i \in 1..Len(ts) : ~Falsy(ts[i].completed)})
    IN  [total |-> total,
         completed |-> completed,
         pending |-> total - completed,
         completionRate |-> IF total > 0
                            THEN MathRound(TimesHundred(Divide(completed, total)))
                            ELSE 0,
         byPriority |-> [p \in {"high", "medium", "low"} |->
                            Cardinality({i \in 1..Len(ts) : ts[i].priority = p})]]

\* useTaskStore.stats()
Stats == CalculateTaskStats(tasks)

----------------------------------------------------------------------------
(* utils/storageUtils.ts: DataValidator.validateTask.  The validator tests   *)
(* the types of what it is given, so here a JavaScript value carries its     *)
(* type: [type, val, fields], where val is the text of a string or of a      *)
(* number as a sequence of characters, and fields holds the properties of an *)
(* object.  A placeholder text of the source is written as one symbol.       *)

NoFields == <<>>
Str(chars) == [type |-> "string", val |-> chars, fields |-> NoFields]
Num(digits) == [type |-> "number", val |-> digits, fields |-> NoFields]
Bool(b) == [type |-> "boolean", val |-> IF b THEN <<"true">> ELSE <<"false">>,
            fields |-> NoFields]
JsUndefined == [type |-> "undefined", val |-> <<>>, fields |-> NoFields]
JsNull == [type |-> "null", val |-> <<>>, fields |-> NoFields]
JsArray == [type |-> "array", val |-> <<>>, fields |-> NoFields]
Obj(fields) == [type |-> "object", val |-> <<>>, fields |-> fields]

\* typeof v
TypeOf(v) == IF v.type \in {"null", "array", "object"} THEN "object" ELSE v.type

\* whether v is truthy
Truthy(v) ==
    CASE v.type \in {"undefined", "null"} -> FALSE
      [] v.type = "string" -> v.val # <<>>
      [] v.type = "number" -> v.val # <<"0">>
      [] v.type = "boolean" -> v.val = <<"true">>
      [] OTHER -> TRUE

\* v[key]: undefined when v has no such property
Field(v, key) == IF key \in DOMAIN v.fields THEN v.fields[key] ELSE JsUndefined

\* text.trim()
Trim(chars) ==
    LET inked == {i \in 1..Len(chars) : chars[i] # " "}
        first == CHOOSE i \in inked : \A j \in inked : i <= j
        final == CHOOSE i \in inked : \A j \in inked : j <= i
    IN  IF inked = {} THEN <<>> ELSE SubSeq(chars, first, final)

\* (StartTime + t).toString(), the text of Date.now() and, in this model, of
\* new Date().toISOString()
Digits(t) ==
    <<ToString((StartTime + t) \div 100), ToString(((StartTime + t) \div 10) % 10),
      ToString((StartTime + t) % 10)>>

Priorities == {<<"l", "o", "w">>, <<"m", "e", "d", "i", "u", "m">>, <<"h", "i", "g", "h">>}

\* DataValidator.validateTask(task) at time t
ValidateTask(task, t) ==
    IF ~Truthy(task) \/ TypeOf(task) # "object" THEN JsNull
    ELSE LET id == Field(task, "id")
             title == Field(task, "title")
             description == Field(task, "description")
             category == Field(task, "category")
             priority == Field(task, "priority")
             dueDate == Field(task, "dueDate")
             createdAt == Field(task, "createdAt")
         IN  Obj([id |-> IF TypeOf(id) = "string" /\ Len(id.val) > 0
                         THEN id ELSE Str(Digits(t)),
                  title |-> IF TypeOf(title) = "string" /\ Len(Trim(title.val)) > 0
                            THEN Str(Trim(title.val)) ELSE Str(<<UnnamedTask>>),
                  description |-> IF TypeOf(description) = "string"
                                  THEN Str(Trim(description.val)) ELSE Str(<<>>),
                  category |-> IF TypeOf(category) = "string" /\ Len(Trim(category.val)) > 0
                               THEN Str(Trim(category.val)) ELSE Str(<<OtherCategory>>),
                  priority |-> IF priority.type = "string" /\ priority.val \in Priorities
                               THEN priority ELSE Str(<<"m", "e", "d", "i", "u", "m">>),
                  dueDate |-> IF Truthy(dueDate) /\ TypeOf(dueDate) = "string"
                              THEN dueDate ELSE JsUndefined,
                  completed |-> Bool(Truthy(Field(task, "completed"))),
                  createdAt |-> IF Truthy(createdAt) /\ TypeOf(createdAt) = "string"
                                THEN createdAt ELSE Str(Digits(t))])

\* the values validateTask is given: values that are not records, and
\* records whose fields are well formed, missing or wrongly typed
PlainValues == {JsNull, JsUndefined, Num(<<"4", "2">>), Str(<<"t", "a", "s", "k">>),
                Bool(TRUE), JsArray}

TaskRecords ==
    {Obj([id |-> id, title |-> title, description |-> description,
          category |-> category, priority |-> priority, dueDate |-> dueDate,
          completed |-> completed, createdAt |-> createdAt, subtasks |-> subtasks]) :
        id \in {JsUndefined, Str(<<>>), Str(<<"7">>)},
        title \in {JsUndefined, Str(<<" ", "B", "u", "y", " ">>), Str(<<"B", "u", "y">>)},
        description \in {JsUndefined, Str(<<" ", "d">>), Str(<<"d">>)},
        category \in {Str(<<>>), Str(<<"w", "o", "r", "k">>)},
        priority \in {JsUndefined, Str(<<"u", "r", "g", "e", "n", "t">>), Str(<<"l", "o", "w">>)},
        dueDate \in {JsUndefined, Str(<<>>), Str(<<"2", "0", "2", "4">>)},
        completed \in {Bool(TRUE), Bool(FALSE), Str(<<"y", "e", "s">>)},
        createdAt \in {JsUndefined, Str(<<"2", "0", "2", "3">>)},
        subtasks \in {JsUndefined, JsArray}}

\* a caller hands a value to validateTask
Given(value) == [step |-> "given", input |-> value, output |-> JsUndefined]

\* validateTask(value)
ValidateTaskCall ==
    /\ validation.step = "given"
    /\ validation' = [step |-> "validated", input |-> validation.input,
                      output |-> ValidateTask(validation.input, now)]
    /\ last' = Done("validateTask", "ok", FALSE, NoArgs)
    /\ UNCHANGED <<tasks, categories, localStorage, now, writeFailures, preImport,
                   filters, calls, hook>>

\* validateTask(validateTask(value)): the result is validated again
ValidateTaskAgain ==
    /\ validation.step = "validated"
    /\ validation' = [step |-> "revalidated", input |-> validation.output,
                      output |-> ValidateTask(validation.output, now)]
    /\ last' = Done("validateTask", "ok", FALSE, NoArgs)
    /\ UNCHANGED <<tasks, categories, localStorage, now, writeFailures, preImport,
                   filters, calls, hook>>

----------------------------------------------------------------------------
(* stores/taskStore.ts: filteredTasks and the filter setters, with the sort  *)
(* functions of utils/storageUtils.ts (DataTransformer).  A text is searched *)
(* and ordered as its sequence of characters.                                *)

UpperCase == <<"A", "B", "C", "D", "E", "F", "G", "H", "I", "J", "K", "L", "M",
               "N", "O", "P", "Q", "R", "S", "T", "U", "V", "W", "X", "Y", "Z">>
LowerCase == <<"a", "b", "c", "d", "e", "f", "g", "h", "i", "j", "k", "l", "m",
               "n", "o", "p", "q", "r", "s", "t", "u", "v", "w", "x", "y", "z">>

\* the characters of the titles, descriptions and search queries of the model
Chars(s) ==
    CASE s = "" -> <<>>
      [] s = "Milk" -> <<"M", "i", "l", "k">>
      [] s = "Mail" -> <<"M", "a", "i", "l">>
      [] s = "read" -> <<"r", "e", "a", "d">>
      [] s = "Read" -> <<"R", "e", "a", "d">>
      [] s = "MILK notes" -> <<"M", "I", "L", "K", " ", "n", "o", "t", "e", "s">>
      [] s = "x" -> <<"x">>
      [] s = "MI" -> <<"M", "I">>
      [] s = "no" -> <<"n", "o">>

LetterIndex(c) ==
    IF \E i \in 1..Len(UpperCase) : c \in {UpperCase[i], LowerCase[i]}
    THEN CHOOSE i \in 1..Len(UpperCase) : c \in {UpperCase[i], LowerCase[i]}
    ELSE 0

\* text.toLowerCase()
ToLowerCase(text) ==
    [i \in 1..Len(text) |->
        IF LetterIndex(text[i]) = 0 THEN text[i] ELSE LowerCase[LetterIndex(text[i])]]

\* text.includes(part)
Includes(text, part) ==
    \E k \in 0..(Len(text) - Len(part)) : SubSeq(text, k + 1, k + Len(part)) = part

\* a.localeCompare(b) for texts of letters and spaces: the letters decide,
\* whatever their case, a space coming before every letter; texts with the
\* same letters are told apart by case, the lower-case letter first
LocaleCompare(a, b) ==
    LET shorter == IF Len(a) < Len(b) THEN Len(a) ELSE Len(b)
        letters == {i \in 1..shorter : LetterIndex(a[i]) # LetterIndex(b[i])}
        cases == {i \in 1..shorter : a[i] # b[i]}
        first(set) == CHOOSE i \in set : \A j \in set : i <= j
    IN  IF letters # {}
        THEN (IF LetterIndex(a[first(letters)]) < LetterIndex(b[first(letters)])
              THEN 0 - 1 ELSE 1)
        ELSE IF Len(a) # Len(b) THEN (IF Len(a) < Len(b) THEN 0 - 1 ELSE 1)
        ELSE IF cases # {}
        THEN (IF a[first(cases)] = LowerCase[LetterIndex(a[first(cases)])]
              THEN 0 - 1 ELSE 1)
        ELSE 0

\* the date strings of the model, as days since 1970-01-01
DateStrings ==
    [s \in {"1999", "2022", "2023", "2023-12-31", "2024-01-01", "2024-02-01"} |->
        CASE s = "1999" -> 10592
          [] s = "2022" -> 18993
          [] s = "2023" -> 19358
          [] s = "2023-12-31" -> 19722
          [] s = "2024-01-01" -> 19723
          [] s = "2024-02-01" -> 19754]

\* new Date(s).getTime(): Some(instant), or None for NaN when s is not a date.
\* Instants are counted in days for a date string and from day 20000 on for
\* the clock's readings; a comparator uses only their order.
GetTime(s) ==
    IF s \in DOMAIN DateStrings THEN Some(DateStrings[s])
    ELSE IF \E t \in 0..MaxStatTasks : s = ISOString(t)
    THEN Some(20000 + (CHOOSE t \in 0..MaxStatTasks : s = ISOString(t)))
    ELSE None

\* a - b for two results of getTime(); NaN compares as 0 in Array.prototype.sort
TimeDiff(ta, tb) == IF ta = None \/ tb = None THEN 0 ELSE ta[1] - tb[1]

\* order === 'desc' ? -diff : diff
Directed(diff, order) == IF order = "desc" THEN 0 - diff ELSE diff

\* the comparator of DataTransformer.sortByDate
CompareByDate(a, b, order) ==
    Directed(TimeDiff(GetTime(a.createdAt), GetTime(b.createdAt)), order)

\* the comparator of DataTransformer.sortByDueDate
CompareByDueDate_AllDirected(a, b, order) ==
    Directed(IF Falsy(a.dueDate) /\ Falsy(b.dueDate) THEN 0
             ELSE IF Falsy(a.dueDate) THEN 1
             ELSE IF Falsy(b.dueDate) THEN 0 - 1
             ELSE TimeDiff(GetTime(a.dueDate), GetTime(b.dueDate)), order)

CompareByDueDate(a, b, order) ==
    IF Falsy(a.dueDate) /\ Falsy(b.dueDate) THEN 0
    ELSE IF Falsy(a.dueDate) THEN 1
    ELSE IF Falsy(b.dueDate) THEN 0 - 1
    ELSE Directed(TimeDiff(GetTime(a.dueDate), GetTime(b.dueDate)), order)

\* the comparator of DataTransformer.sortByPriority; a priority that is not
\* one of the three gives NaN, which compares as 0
PriorityOrder == [p \in {"high", "medium", "low"} |->
                    IF p = "high" THEN 3 ELSE IF p = "medium" THEN 2 ELSE 1]

CompareByPriority(a, b, order) ==
    IF a.priority \in DOMAIN PriorityOrder /\ b.priority \in DOMAIN PriorityOrder
    THEN Directed(PriorityOrder[a.priority] - PriorityOrder[b.priority], order)
    ELSE 0

\* the comparator of sortFn.title
CompareByTitle(a, b, order) ==
    Directed(LocaleCompare(Chars(a.title), Chars(b.title)), order)

\* the comparator sortFn[sortBy] sorts with
Compare(a, b, sortBy, order) ==
    CASE sortBy = "createdAt" -> CompareByDate(a, b, order)
      [] sortBy = "dueDate" -> CompareByDueDate(a, b, order)
      [] sortBy = "priority" -> CompareByPriority(a, b, order)
      [] sortBy = "title" -> CompareByTitle(a, b, order)

\* where the stable sort puts x in the sorted array front: behind the last
\* element that does not compare greater than x
InsertAt_BeforeEqual(front, x, sortBy, order) ==
    LET before == {j \in 1..Len(front) : Compare(front[j], x, sortBy, order) < 0}
    IN  IF before = {} THEN 0 ELSE CHOOSE j \in before : \A k \in before : k <= j

InsertAt(front, x, sortBy, order) ==
    LET before == {j \in 1..Len(front) : Compare(front[j], x, sortBy, order) <= 0}
    IN  IF before = {} THEN 0 ELSE CHOOSE j \in before : \A k \in before : k <= j

RECURSIVE ArraySort(_, _, _)
\* [...s].sort(comparator): Array.prototype.sort is stable
ArraySort(s, sortBy, order) ==
    IF Len(s) <= 1 THEN s
    ELSE LET front == ArraySort(SubSeq(s, 1, Len(s) - 1), sortBy, order)
             x == s[Len(s)]
             at == InsertAt(front, x, sortBy, order)
         IN  SubSeq(front, 1, at) \o <<x>> \o SubSeq(front, at + 1, Len(front))

\* matchesSearch
MatchesSearch_TitleOnly(task, searchQuery) ==
    \/ Falsy(searchQuery)
    \/ Includes(ToLowerCase(Chars(task.title)), ToLowerCase(Chars(searchQuery)))

MatchesSearch(task, searchQuery) ==
    \/ Falsy(searchQuery)
    \/ Includes(ToLowerCase(Chars(task.title)), ToLowerCase(Chars(searchQuery)))
    \/ /\ ~Falsy(task.description)
       /\ Includes(ToLowerCase(Chars(task.description)), ToLowerCase(Chars(searchQuery)))

\* matchesCategory
MatchesCategory(task, selectedCategory) ==
    Falsy(selectedCategory) \/ task.category = selectedCategory

\* matchesStatus
MatchesStatus(task, filterStatus) ==
    \/ filterStatus = "all"
    \/ filterStatus = "completed" /\ ~Falsy(task.completed)
    \/ filterStatus = "todo" /\ Falsy(task.completed)

\* filteredTasks() for the collection ts and the filter state f
FilteredTasks(ts, f) ==
    ArraySort(FilterIdx(ts, {i \in 1..Len(ts) :
                                /\ MatchesSearch(ts[i], f.searchQuery)
                                /\ MatchesCategory(ts[i], f.selectedCategory)
                                /\ MatchesStatus(ts[i], f.filterStatus)}),
              f.sortBy, f.sortOrder)

\* DataTransformer.sortByDueDate(tasks, order)
SortByDueDate(ts, order) == ArraySort(ts, "dueDate", order)

\* the values the setters are called with
SearchQueries == {"", "MI", "no"}
SelectableCategories == {Null, "gouwu", "xuexi"}
FilterStatuses == {"all", "completed", "todo"}
SortKeys == {"createdAt", "dueDate", "priority", "title"}
SortOrders == {"asc", "desc"}

\* what every setter leaves alone
SetFilters(op, newFilters) ==
    /\ filters' = newFilters
    /\ last' = Done(op, "ok", FALSE, NoArgs)
    /\ UNCHANGED <<tasks, categories, localStorage, now, writeFailures, preImport, others>>

SetSearchQuery ==
    \E query \in SearchQueries :
        SetFilters("setSearchQuery", [filters EXCEPT !.searchQuery = query])

SetSelectedCategory ==
    \E categoryId \in SelectableCategories :
        SetFilters("setSelectedCategory", [filters EXCEPT !.selectedCategory = categoryId])

SetFilterStatus ==
    \E status \in FilterStatuses :
        SetFilters("setFilterStatus", [filters EXCEPT !.filterStatus = status])

SetSortBy ==
    \E sortBy \in SortKeys : SetFilters("setSortBy", [filters EXCEPT !.sortBy = sortBy])

SetSortOrder ==
    \E order \in SortOrders :
        SetFilters("setSortOrder", [filters EXCEPT !.sortOrder = order])

ClearFilters == SetFilters("clearFilters", DefaultFilters)

----------------------------------------------------------------------------
(* stores/categoryStore.ts: useCategoryStore *)

\* the category data addCategory / bulkAddCategories are called with
CategoryInputs == << [id |-> Undefined, name |-> "jiating", color |-> "#8B5CF6"] >>

\* the partial updates updateCategory / bulkUpdateCategories are called with
CategoryUpdates == << [name |-> "renamed"] >>

\* Math.random().toString(36).substr(2, 9)
RandomSuffixes == {"k3x", "q9z"}

\* the ids category operations are called with
CategoryIdPool == {"1", MissingId} \cup {DateNowString(t) : t \in 0..MaxTicks}

\* set(...) the new collection, then await storageService.saveCategories(get().categories)
MutateThenSaveCategories(op, newCategories, args) ==
    \E ok \in WriteOutcomes :
        LET w == SaveCategories(localStorage, newCategories, now, ok) IN
        /\ categories' = newCategories
        /\ localStorage' = w.storage
        /\ writeFailures' = writeFailures + Failed(ok)
        /\ last' = Done(op, Outcome(w.threw), ~ok, args)
        /\ UNCHANGED <<tasks, now, preImport, filters, others>>

AddCategoryMem(cs, categoryData, t) ==
    Append(cs, [categoryData EXCEPT !.id = DateNowString(t)])

AddCategory ==
    /\ Len(categories) < MaxCategories
    /\ \E i \in 1..Len(CategoryInputs) :
        MutateThenSaveCategories("addCategory",
                                 AddCategoryMem(categories, CategoryInputs[i], now),
                                 [NoArgs EXCEPT !.idx = i])

UpdateCategoryMem(cs, id, updates) ==
    [i \in 1..Len(cs) |-> IF cs[i].id = id THEN Spread(cs[i], updates) ELSE cs[i]]

UpdateCategory ==
    \E id \in CategoryIdPool, i \in 1..Len(CategoryUpdates) :
        MutateThenSaveCategories("updateCategory",
                                 UpdateCategoryMem(categories, id, CategoryUpdates[i]),
                                 [NoArgs EXCEPT !.id = id, !.idx = i])

DeleteCategoryMem(cs, id) == FilterIdx(cs, {i \in 1..Len(cs) : cs[i].id # id})

DeleteCategory ==
    \E id \in CategoryIdPool :
        MutateThenSaveCategories("deleteCategory", DeleteCategoryMem(categories, id),
                                 [NoArgs EXCEPT !.id = id])

\* bulkAddCategories with a list of one category: id = Date.now().toString() + random
BulkAddCategoriesMem(cs, categoryData, t, r) ==
    Append(cs, [categoryData EXCEPT !.id = DateNowString(t) \o r])

BulkAddCategories ==
    /\ Len(categories) < MaxCategories
    /\ \E i \in 1..Len(CategoryInputs), r \in RandomSuffixes :
        MutateThenSaveCategories("bulkAddCategories",
                                 BulkAddCategoriesMem(categories, CategoryInputs[i], now, r),
                                 [NoArgs EXCEPT !.idx = i])

\* resetToDefault(): defaultCategories = await storageService.getCategories();
\* set({ categories: defaultCategories }); nothing is written
ResetToDefaultMem(ls) == GetCategories(ls)

ResetToDefault ==
    /\ categories' = ResetToDefaultMem(localStorage)
    /\ last' = Done("resetToDefault", "ok", FALSE, NoArgs)
    /\ UNCHANGED <<tasks, localStorage, now, writeFailures, preImport, filters, others>>

\* getCategoriesWithTaskCount(tasks), on the categories cs of the store
GetCategoriesWithTaskCount_ById(cs, ts) ==
    [i \in 1..Len(cs) |->
        [id |-> cs[i].id, name |-> cs[i].name, color |-> cs[i].color,
         taskCount |-> Cardinality({j \in 1..Len(ts) : ts[j].category = cs[i].id})]]

GetCategoriesWithTaskCount(cs, ts) ==
    [i \in 1..Len(cs) |->
        [id |-> cs[i].id, name |-> cs[i].name, color |-> cs[i].color,
         taskCount |-> Cardinality({j \in 1..Len(ts) : ts[j].category = cs[i].name})]]

\* loadCategories()
LoadCategories ==
    /\ categories' = GetCategories(localStorage)
    /\ last' = Done("loadCategories", "ok", FALSE, NoArgs)
    /\ UNCHANGED <<tasks, localStorage, now, writeFailures, preImport, filters, others>>

\* the category lists importCategories is called with
CategoryLists == << <<[id |-> "9", name |-> "daoru", color |-> "#14B8A6"]>> >>

\* importCategories(categories): await saveCategories(categories), then set
ImportCategories ==
    \E i \in 1..Len(CategoryLists), ok \in WriteOutcomes :
        LET w == SaveCategories(localStorage, CategoryLists[i], now, ok) IN
        /\ categories' = IF w.threw THEN categories ELSE CategoryLists[i]
        /\ localStorage' = w.storage
        /\ writeFailures' = writeFailures + Failed(ok)
        /\ last' = Done("importCategories", Outcome(w.threw), ~ok, [NoArgs EXCEPT !.idx = i])
        /\ UNCHANGED <<tasks, now, preImport, filters, others>>

----------------------------------------------------------------------------
(* services/storage.ts: importData, restoreBackup, clearAll *)

ImportedCategory == [id |-> "9", name |-> "daoru", color |-> "#14B8A6"]

\* a task of an import file whose priority and completed are not of the Task type
UntypedTask ==
    [id |-> "8", title |-> "Untyped", description |-> "d",
     category |-> "gongzuo", priority |-> "urgent", dueDate |-> Undefined,
     completed |-> "yes", createdAt |-> "2022", subtasks |-> None]

Missing == [kind |-> "missing", val |-> <<>>]
NotArray == [kind |-> "notArray", val |-> <<>>]
ArrayOf(a) == [kind |-> "array", val |-> a]

\* the payloads importData is called with
Bundles == <<
    [top |-> "null",      tasks |-> Missing, categories |-> Missing],
    [top |-> "primitive", tasks |-> Missing, categories |-> Missing],
    [top |-> "array",     tasks |-> Missing, categories |-> Missing],
    \* { tasks: "not-an-array", categories: [] }
    [top |-> "object", tasks |-> NotArray, categories |-> ArrayOf(<<>>)],
    [top |-> "object", tasks |-> ArrayOf(<<ImportedTask>>), categories |-> NotArray],
    [top |-> "object", tasks |-> ArrayOf(<<ImportedTask>>),
                       categories |-> ArrayOf(<<ImportedCategory>>)],
    [top |-> "object", tasks |-> ArrayOf(<<UntypedTask>>), categories |-> Missing],
    [top |-> "object", tasks |-> Missing, categories |-> ArrayOf(<<ImportedCategory>>)] >>

\* the outcomes of two writes that the failure bound allows
WriteOutcomePairs(used) ==
    {p \in BOOLEAN \X BOOLEAN : used + Failed(p[1]) + Failed(p[2]) <= MaxWriteFailures}

ImportDataOf(op, data, args) ==
        IF ImportFormatError(data) # ""
        THEN /\ last' = Done(op, "rejected", FALSE, args)
             /\ UNCHANGED <<tasks, categories, localStorage, now, writeFailures, preImport, filters, others>>
        ELSE \E okB \in WriteOutcomes :
               LET b == CreateBackup(localStorage, now, okB)
                   before == [tasks |-> GetTasks(localStorage),
                              categories |-> GetCategories(localStorage)]
               IN
               IF b.threw
               THEN /\ localStorage' = b.storage
                    /\ writeFailures' = writeFailures + Failed(okB)
                    /\ last' = Done(op, "rejected", TRUE, args)
                    /\ preImport' = [valid |-> FALSE, tasks |-> before.tasks,
                                     categories |-> before.categories]
                    /\ UNCHANGED <<tasks, categories, now, filters, others>>
               ELSE \E p \in WriteOutcomePairs(writeFailures + Failed(okB)) :
                      LET w == SaveBoth(b.storage, BundleTasks(data),
                                        BundleCategories(data), now, p[1], p[2])
                      IN
                      /\ localStorage' = w.storage
                      /\ writeFailures' = writeFailures + Failed(okB) + Failed(p[1]) + Failed(p[2])
                      /\ last' = Done(op, Outcome(w.threw),
                                      ~okB \/ ~p[1] \/ ~p[2], args)
                      /\ preImport' = [valid |-> ~w.threw, tasks |-> before.tasks,
                                       categories |-> before.categories]
                      /\ UNCHANGED <<tasks, categories, now, filters, others>>

ImportData ==
    \E i \in 1..Len(Bundles) :
        ImportDataOf("importData", Bundles[i], [NoArgs EXCEPT !.idx = i])

\* importData(await exportData()): what is stored is exported and imported
ImportExported ==
    LET exported == ExportData(localStorage, now) IN
    ImportDataOf("importExported",
                 [top |-> "object", tasks |-> ArrayOf(exported.tasks),
                  categories |-> ArrayOf(exported.categories)],
                 NoArgs)

\* saveTasks(await getTasks())
ResaveTasks ==
    \E ok \in WriteOutcomes :
        LET w == SaveTasks(localStorage, GetTasks(localStorage), now, ok) IN
        /\ localStorage' = w.storage
        /\ writeFailures' = writeFailures + Failed(ok)
        /\ last' = Done("resaveTasks", Outcome(w.threw), ~ok, NoArgs)
        /\ UNCHANGED <<tasks, categories, now, preImport, filters, others>>

\* restoreBackup(): getItem(BACKUP, null); throws 'No backup found' when null
RestoreBackup ==
    IF localStorage.BACKUP.kind # "object"
    THEN /\ last' = Done("restoreBackup", "rejected", FALSE, NoArgs)
         /\ UNCHANGED <<tasks, categories, localStorage, now, writeFailures, preImport, filters, others>>
    ELSE \E p \in WriteOutcomePairs(writeFailures) :
           LET backup == localStorage.BACKUP.val
               w == SaveBoth(localStorage, ArrayOf(backup.tasks),
                             ArrayOf(backup.categories), now, p[1], p[2])
           IN
           /\ localStorage' = w.storage
           /\ writeFailures' = writeFailures + Failed(p[1]) + Failed(p[2])
           /\ last' = Done("restoreBackup", Outcome(w.threw), ~p[1] \/ ~p[2], NoArgs)
           /\ UNCHANGED <<tasks, categories, now, preImport, filters, others>>

\* clearAll(): localStorage.removeItem for every key of STORAGE_KEYS
ClearAll_KeepsBackup ==
    /\ localStorage' = [localStorage EXCEPT !.TASKS = Absent, !.CATEGORIES = Absent,
                                            !.SETTINGS = Absent]
    /\ last' = Done("clearAll", "ok", FALSE, NoArgs)
    /\ UNCHANGED <<tasks, categories, now, writeFailures, preImport, filters, others>>

ClearAll ==
    /\ localStorage' = [TASKS |-> Absent, CATEGORIES |-> Absent,
                        SETTINGS |-> Absent, BACKUP |-> NoBackup]
    /\ last' = Done("clearAll", "ok", FALSE, NoArgs)
    /\ UNCHANGED <<tasks, categories, now, writeFailures, preImport, filters, others>>

\* The items are plain text in the browser's storage, which the service is
\* not alone to write: getItem expects text that is missing, that JSON.parse
\* rejects or that is not an array.  The text under the tasks or the
\* categories key is replaced by such a text, or by an array.
StoredTexts ==
    {[kind |-> "corrupt", val |-> <<>>],
     [kind |-> "primitive", val |-> <<>>],
     [kind |-> "object", val |-> <<>>],
     StringifyArray(<<>>),
     StringifyArray(<<ImportedTask>>),
     StringifyArray(<<ImportedCategory>>)}

StorageEdited ==
    \E key \in {"TASKS", "CATEGORIES"}, text \in StoredTexts :
        /\ localStorage' = [localStorage EXCEPT ![key] = text]
        /\ last' = Done("storageEdited", "ok", FALSE, [NoArgs EXCEPT !.id = key])
        /\ UNCHANGED <<tasks, categories, now, writeFailures, preImport, filters, others>>

NextTask ==
    \/ Tick
    \/ AddTask
    \/ UpdateTask
    \/ DeleteTask
    \/ ToggleTask
    \/ ToggleAllTasks
    \/ ClearCompleted
    \/ DeleteCompleted
    \/ BulkUpdateTasks
    \/ BulkDeleteTasks
    \/ LoadTasks
    \/ ImportTasks
    \/ ResetTasks

SpecTask == Init /\ [][NextTask]_vars

NextCategory ==
    \/ Tick
    \/ AddCategory
    \/ UpdateCategory
    \/ DeleteCategory
    \/ BulkAddCategories
    \/ ResetToDefault
    \/ LoadCategories
    \/ ImportCategories
    \/ ImportTasks
    \/ ResetTasks

\* the task store under updates of any field
NextTaskFields ==
    \/ Tick
    \/ AddTask
    \/ UpdateTaskCreationFields
    \/ BulkUpdateTasksCreationFields
    \/ ToggleTask
    \/ ToggleAllTasks

SpecTaskFields == Init /\ [][NextTaskFields]_vars

SpecCategory == Init /\ [][NextCategory]_vars

NextAdapter ==
    \/ Tick
    \/ ImportData
    \/ RestoreBackup
    \/ ClearAll
    \/ LoadTasks
    \/ LoadCategories

SpecAdapter == Init /\ [][NextAdapter]_vars

\* The statistics of larger collections.  The store starts holding n tasks,
\* the first c of them completed, as n calls of addTask at successive clock
\* readings followed by c calls of toggleTask leave it, every write done.
StatTask(i, completed) ==
    [id |-> DateNowString(i - 1), title |-> "Read", description |-> "notes",
     category |-> "xuexi", priority |-> "medium", dueDate |-> "2024-01-01",
     completed |-> completed, createdAt |-> ISOString(i - 1), subtasks |-> None]

InitStats ==
    \E n \in 0..MaxStatTasks : \E c \in 0..n :
        /\ tasks = [i \in 1..n |-> StatTask(i, IF i <= c THEN "true" ELSE "false")]
        /\ categories = <<>>
        /\ localStorage = [TASKS |-> StringifyArray(tasks), CATEGORIES |-> Absent,
                           SETTINGS |-> Absent, BACKUP |-> NoBackup]
        /\ now = 0
        /\ writeFailures = 0
        /\ last = Done("init", "ok", FALSE, NoArgs)
        /\ preImport = [valid |-> FALSE, tasks |-> <<>>, categories |-> <<>>]
        /\ filters = DefaultFilters
        /\ validation = NoValidation
        /\ calls = NoCalls
        /\ hook = NoHook

NextStats == ToggleTask

SpecStats == InitStats /\ [][NextStats]_vars

\* reading storage that holds any text
NextRead ==
    \/ StorageEdited
    \/ LoadTasks
    \/ LoadCategories
    \/ ClearAll

SpecRead == Init /\ [][NextRead]_vars

\* Filtering and sorting.  The store starts holding up to MaxViewTasks of
\* the tasks below, in any order, as addTask, updateTask and toggleTask calls
\* leave them (stored as saveTasks writes them), and the filter state is set.
ViewTasks ==
    {[id |-> "100", title |-> "Milk", description |-> "",
      category |-> "gouwu", priority |-> "low", dueDate |-> "",
      completed |-> "false", createdAt |-> ISOString(0), subtasks |-> None],
     [id |-> "101", title |-> "read", description |-> "MILK notes",
      category |-> "xuexi", priority |-> "high", dueDate |-> "2024-02-01",
      completed |-> "true", createdAt |-> ISOString(1), subtasks |-> None],
     [id |-> "102", title |-> "Mail", description |-> Undefined,
      category |-> "gouwu", priority |-> "medium", dueDate |-> "2024-01-01",
      completed |-> "false", createdAt |-> ISOString(2), subtasks |-> None],
     [id |-> "103", title |-> "Read", description |-> "x",
      category |-> "gongzuo", priority |-> "high", dueDate |-> Undefined,
      completed |-> "true", createdAt |-> ISOString(2), subtasks |-> None]}

ViewTaskLists ==
    {ts \in UNION {[1..n -> ViewTasks] : n \in 0..MaxViewTasks} :
        \A i, j \in DOMAIN ts : i # j => ts[i] # ts[j]}

InitView ==
    /\ tasks \in ViewTaskLists
    /\ categories = <<>>
    /\ localStorage = [TASKS |-> StringifyArray([i \in 1..Len(tasks) |->
                                                   ValidatedTask(tasks[i], 0)]),
                       CATEGORIES |-> Absent, SETTINGS |-> Absent, BACKUP |-> NoBackup]
    /\ now = 0
    /\ writeFailures = 0
    /\ last = Done("init", "ok", FALSE, NoArgs)
    /\ preImport = [valid |-> FALSE, tasks |-> <<>>, categories |-> <<>>]
    /\ filters = DefaultFilters
    /\ validation = NoValidation
    /\ calls = NoCalls
    /\ hook = NoHook

NextView ==
    \/ SetSearchQuery
    \/ SetSelectedCategory
    \/ SetFilterStatus
    \/ SetSortBy
    \/ SetSortOrder
    \/ ClearFilters

SpecView == InitView /\ [][NextView]_vars

\* Validation: some value is handed to validateTask, at any time
InitValidate ==
    /\ tasks = <<>>
    /\ categories = <<>>
    /\ localStorage = [TASKS |-> Absent, CATEGORIES |-> Absent,
                       SETTINGS |-> Absent, BACKUP |-> NoBackup]
    /\ now = 0
    /\ writeFailures = 0
    /\ last = Done("init", "ok", FALSE, NoArgs)
    /\ preImport = [valid |-> FALSE, tasks |-> <<>>, categories |-> <<>>]
    /\ filters = DefaultFilters
    /\ \/ \E value \in PlainValues : validation = Given(value)
       \/ \E value \in TaskRecords : validation = Given(value)
    /\ calls = NoCalls
    /\ hook = NoHook

NextValidate ==
    \/ Tick
    \/ ValidateTaskCall
    \/ ValidateTaskAgain

SpecValidate == InitValidate /\ [][NextValidate]_vars

\* Overlapping mutations of the task store
NextOverlap ==
    \/ Tick
    \/ StartAddTask
    \/ StartUpdateTask
    \/ StartDeleteTask
    \/ Resume

SpecOverlap == Init /\ [][NextOverlap]_vars

\* loadTasks overlapping with mutations
NextLoadRace ==
    \/ Tick
    \/ StartAddTask
    \/ StartDeleteTask
    \/ StartLoadTasks
    \/ Resume

SpecLoadRace == Init /\ [][NextLoadRace]_vars

\* The useTasks hook, mounted over empty storage and loaded
InitHook ==
    /\ tasks = <<>>
    /\ categories = <<>>
    /\ localStorage = [TASKS |-> Absent, CATEGORIES |-> Absent,
                       SETTINGS |-> Absent, BACKUP |-> NoBackup]
    /\ now = 0
    /\ writeFailures = 0
    /\ last = Done("init", "ok", FALSE, NoArgs)
    /\ preImport = [valid |-> FALSE, tasks |-> <<>>, categories |-> <<>>]
    /\ filters = DefaultFilters
    /\ validation = NoValidation
    /\ calls = NoCalls
    /\ hook = MountedHook

NextHook ==
    \/ Tick
    \/ HookAddTask
    \/ HookUpdateTask
    \/ HookDeleteTask
    \/ HookResume
    \/ Render

SpecHook == InitHook /\ [][NextHook]_vars

\* Stored states produced by saveTasks and saveCategories, called by
\* importData, then exported and imported again
NextRoundTrip ==
    \/ Tick
    \/ ImportData
    \/ ImportExported
    \/ ResaveTasks

SpecRoundTrip == Init /\ [][NextRoundTrip]_vars

\* the whole program
Next == NextTask \/ NextCategory \/ NextAdapter

Spec == Init /\ [][Next]_vars

----------------------------------------------------------------------------
(* Claims *)

TaskMutationOps ==
    {"addTask", "updateTask", "deleteTask", "toggleTask", "toggleAllTasks",
     "clearCompleted", "deleteCompleted", "bulkUpdateTasks", "bulkDeleteTasks",
     "importTasks", "resetTasks"}

\* the mutations that set the in-memory collection before they write
SetThenSaveOps ==
    {"addTask", "updateTask", "deleteTask", "toggleAllTasks", "clearCompleted",
     "deleteCompleted", "bulkUpdateTasks", "bulkDeleteTasks"}

\* C1: after task-store mutations that all completed without a write error, the
\* list getTasks() returns equals the in-memory task list: same tasks, same
\* order, same field values.
C1_DurableEqualsMemory ==
    (last.op \in TaskMutationOps /\ last.outcome = "ok" /\ writeFailures = 0)
        => GetTasks(localStorage) = tasks

\* the step just taken left in tasks' the collection its mutation produces
MutationKept ==
    LET op == last'.op
        hit(i) == IF op = "bulkUpdateTasks" THEN tasks[i].id \in last'.ids
                  ELSE tasks[i].id = last'.id
        gone(i) == IF op = "bulkDeleteTasks" THEN tasks[i].id \in last'.ids
                   ELSE IF op = "deleteTask" THEN tasks[i].id = last'.id
                   ELSE ~Falsy(tasks[i].completed)
    IN
    IF op = "addTask"
    THEN /\ Len(tasks') = Len(tasks) + 1
         /\ SubSeq(tasks', 1, Len(tasks)) = tasks
         /\ tasks'[Len(tasks')].title = TaskInputs[last'.idx].title
         /\ tasks'[Len(tasks')].id = DateNowString(now)
    ELSE IF op \in {"updateTask", "bulkUpdateTasks"}
    THEN /\ Len(tasks') = Len(tasks)
         /\ \A i \in 1..Len(tasks) :
              IF hit(i)
              THEN \A f \in DOMAIN tasks[i] :
                     tasks'[i][f] = IF f \in DOMAIN TaskUpdates[last'.idx]
                                    THEN TaskUpdates[last'.idx][f] ELSE tasks[i][f]
              ELSE tasks'[i] = tasks[i]
    ELSE IF op = "toggleAllTasks"
    THEN /\ Len(tasks') = Len(tasks)
         /\ \A i \in 1..Len(tasks) :
              /\ tasks'[i].completed = last'.flag
              /\ tasks'[i].id = tasks[i].id
    ELSE \* deleteTask, bulkDeleteTasks, clearCompleted, deleteCompleted
         /\ Len(tasks') = Cardinality({i \in 1..Len(tasks) : ~gone(i)})
         /\ \A i \in 1..Len(tasks) : ~gone(i) => \E j \in 1..Len(tasks') : tasks'[j] = tasks[i]
         /\ \A j \in 1..Len(tasks') : \E i \in 1..Len(tasks) : ~gone(i) /\ tasks'[j] = tasks[i]

\* C2: when the storage write fails during addTask, updateTask, deleteTask,
\* toggleAllTasks, clearCompleted, deleteCompleted, bulkUpdateTasks or
\* bulkDeleteTasks, the operation rejects, the in-memory collection keeps the
\* mutation, and the durable copy keeps its content from before the operation.
C2_FailedWriteRejectsAndKeepsMemory ==
    [][(last'.op \in SetThenSaveOps /\ last'.wfail)
          => /\ last'.outcome = "rejected"
             /\ localStorage' = localStorage
             /\ MutationKept]_vars

\* a failed deleteTask: the task is gone from memory and still stored
C2_Witness ==
    /\ last.op = "deleteTask" /\ last.wfail /\ last.outcome = "rejected"
    /\ tasks = <<>>
    /\ Len(GetTasks(localStorage)) = 1

\* C3: saveTasks(L) followed by getTasks() returns each task that carries
\* subtasks with the same ordered subtasks sequence, so subtasks added through
\* the store (addTask, updateTask) survive a later loadTasks().
C3_SubtasksSurviveSave ==
    (last.op \in {"addTask", "updateTask"} /\ last.outcome = "ok")
        => /\ Len(GetTasks(localStorage)) = Len(tasks)
           /\ \A i \in 1..Len(tasks) :
                tasks[i].subtasks # None
                    => GetTasks(localStorage)[i].subtasks = tasks[i].subtasks

\* a payload whose top-level value is not an object, or whose tasks or
\* categories is present but not an array
Malformed(data) ==
    \/ data.top \in {"null", "primitive"}
    \/ data.top = "object" /\ data.tasks.kind = "notArray"
    \/ data.top = "object" /\ data.categories.kind = "notArray"

MissingKey(data) ==
    /\ data.top = "object"
    /\ data.tasks.kind = "missing" \/ data.categories.kind = "missing"

C6_RestoreReturnsPreImportState ==
    (last.op = "restoreBackup" /\ last.outcome = "ok" /\ preImport.valid)
        => /\ GetTasks(localStorage) = preImport.tasks
           /\ GetCategories(localStorage) = preImport.categories

\* a restore after the second of two imports: the stored tasks are those of the
\* first import again
C6_Witness ==
    /\ last.op = "restoreBackup" /\ last.outcome = "ok" /\ preImport.valid
    /\ Len(preImport.tasks) > 0
    /\ GetTasks(localStorage) = preImport.tasks
    /\ GetCategories(localStorage) = preImport.categories

IdsUnique(s) == \A i, j \in 1..Len(s) : s[i].id = s[j].id => i = j

\* C7: in every reachable state no two tasks have the same id and no two
\* categories have the same id, whatever the clock reads between two calls of
\* addTask / addCategory / bulkAddCategories.
C7_IdsUnique == IdsUnique(tasks) /\ IdsUnique(categories)

\* C8: after resetToDefault() the in-memory and the durable categories are the
\* five built-in defaults; after resetTasks() the in-memory and the durable
\* task lists are empty.
C8_ResetRestoresDefaults ==
    /\ (last.op = "resetToDefault" /\ last.outcome = "ok")
          => /\ categories = DEFAULT_CATEGORIES
             /\ GetCategories(localStorage) = DEFAULT_CATEGORIES
    /\ (last.op = "resetTasks" /\ last.outcome = "ok")
          => /\ tasks = <<>>
             /\ GetTasks(localStorage) = <<>>

PriorityAndCompletedValid(ts) ==
    \A i \in 1..Len(ts) :
        /\ ts[i].priority \in {"low", "medium", "high"}
        /\ ts[i].completed \in {"true", "false"}

\* C9: in every reachable state every task in memory and in the durable copy has
\* priority in {low, medium, high} and a boolean completed.
C9_PriorityAndCompletedValid ==
    /\ PriorityAndCompletedValid(tasks)
    /\ PriorityAndCompletedValid(GetTasks(localStorage))

\* C10: bulkDeleteTasks(ids) followed by getTasks() returns exactly the original
\* tasks whose id is not in ids, in their original order and unchanged.
C10_BulkDeleteKeepsTheRest ==
    [][(last'.op = "bulkDeleteTasks" /\ last'.outcome = "ok")
          => GetTasks(localStorage')
               = FilterIdx(tasks, {i \in 1..Len(tasks) : tasks[i].id \notin last'.ids})]_vars

\* C11: in every reachable state stats() returns total = the number of tasks,
\* completed = the number of tasks whose completed is true, pending = total -
\* completed, and completionRate = 100 * completed / total rounded to the
\* nearest integer (0 for the empty collection), a number from 0 to 100; after
\* addTask and toggleTask on an empty store stats() is {1, 1, 0, 100}.
C11_StatsAreCounts ==
    LET s == Stats
        total == Len(tasks)
        completed == Cardinality({i \in 1..Len(tasks) : tasks[i].completed = "true"})
    IN  /\ s.total = total
        /\ s.completed = completed
        /\ s.pending = total - completed
        /\ s.completionRate = IF total > 0
                              THEN (200 * completed + total) \div (2 * total)
                              ELSE 0
        /\ s.completionRate \in 0..100
        /\ (total = 1 /\ completed = 1 /\ last.op = "toggleTask")
              => /\ s.total = 1 /\ s.completed = 1
                 /\ s.pending = 0 /\ s.completionRate = 100

\* what saveTasks writes for the collection ts
StoredForm(ts) == [i \in 1..Len(ts) |-> ValidatedTask(ts[i], now)]

\* C12: toggleTask(id), for an id some task has, does to the in-memory and to
\* the durable state what updateTask(id, {completed: not current}) does; only
\* that task's completed flag flips, every other task and field stays as it
\* was; toggleTask(id) applied twice gives back the original collection.
C12_ToggleFlipsOneFlag ==
    [][(last'.op = "toggleTask" /\ FindTask(tasks, last'.id) # 0) =>
         LET id == last'.id
             k == FindTask(tasks, id)
             asUpdate == UpdateTaskMem(tasks, id, [completed |-> Not(tasks[k].completed)])
             flipAt(ts) == [i \in 1..Len(ts) |->
                              IF i = k THEN [ts[i] EXCEPT !.completed = Not(@)] ELSE ts[i]]
         IN  /\ tasks' = asUpdate
             /\ \E ok \in BOOLEAN :
                   /\ localStorage' = SaveTasks(localStorage, asUpdate, now, ok).storage
                   /\ last'.outcome = Outcome(~ok)
             /\ tasks' = flipAt(tasks)
             /\ (last'.outcome = "ok" /\ GetTasks(localStorage) = StoredForm(tasks))
                   => GetTasks(localStorage') = flipAt(GetTasks(localStorage))
             /\ ToggleTaskMem(ToggleTaskMem(tasks, id), id) = tasks
      ]_vars

\* the operations that look a task up by its id
ByIdOps == {"updateTask", "toggleTask", "deleteTask"}

\* C13 (as stated): updateTask, toggleTask and deleteTask called with an id no
\* task has raise no error and leave the content of the in-memory collection
\* and of the durable copy unchanged.
C13_MissingIdNoErrorNoChange ==
    [][(last'.op \in ByIdOps /\ FindTask(tasks, last'.id) = 0) =>
         /\ last'.outcome = "ok"
         /\ tasks' = tasks
         /\ GetTasks(localStorage') = GetTasks(localStorage)
      ]_vars

\* C13 (amended): called with an id no task has, the three operations leave
\* the in-memory collection unchanged.  toggleTask then writes nothing and
\* raises no error.  updateTask and deleteTask write the unchanged collection:
\* they raise an error exactly when that write fails, storage being left as it
\* was; when the write succeeds the durable copy is the stored form of the
\* in-memory collection, so it is unchanged if it was that already.
C13_MissingIdKeepsMemory ==
    [][(last'.op \in ByIdOps /\ FindTask(tasks, last'.id) = 0) =>
         /\ tasks' = tasks
         /\ last'.op = "toggleTask"
               => last'.outcome = "ok" /\ localStorage' = localStorage
         /\ last'.op # "toggleTask"
               => /\ last'.outcome = "rejected" <=> last'.wfail
                  /\ last'.wfail => localStorage' = localStorage
                  /\ ~last'.wfail => GetTasks(localStorage') = StoredForm(tasks)
         /\ GetTasks(localStorage) = StoredForm(tasks)
               => GetTasks(localStorage') = GetTasks(localStorage)
      ]_vars

\* updateTask with an id no task has was rejected because its write failed
C13_Witness ==
    /\ last.op = "updateTask" /\ last.id = MissingId
    /\ FindTask(tasks, MissingId) = 0
    /\ tasks # <<>>
    /\ last.outcome = "rejected"

\* the operations that change tasks in place
InPlaceOps == {"updateTask", "bulkUpdateTasks", "toggleTask", "toggleAllTasks"}

\* C14: updateTask, bulkUpdateTasks, toggleTask and toggleAllTasks, whatever
\* partial update they are passed, leave the id and the createdAt of every
\* task as they were.
C14_IdAndCreatedAtKept ==
    [][last'.op \in InPlaceOps =>
         /\ Len(tasks') = Len(tasks)
         /\ \A i \in 1..Len(tasks) :
               /\ tasks'[i].id = tasks[i].id
               /\ tasks'[i].createdAt = tasks[i].createdAt
      ]_vars

\* C15: deleteCategory(id) and updateCategory(id, {name: ...}) leave every
\* task as it was, in memory and in storage, whether or not a category still
\* has the name a task refers to; afterwards getCategoriesWithTaskCount(tasks)
\* lists exactly the current categories, in their order, each with taskCount =
\* the number of tasks whose category is that category's name.
C15_CategoryChangeKeepsTasks ==
    [][last'.op \in {"deleteCategory", "updateCategory"} =>
         LET listed == GetCategoriesWithTaskCount(categories', tasks')
         IN  /\ tasks' = tasks
             /\ localStorage'.TASKS = localStorage.TASKS
             /\ GetTasks(localStorage') = GetTasks(localStorage)
             /\ Len(listed) = Len(categories')
             /\ \A i \in 1..Len(listed) :
                   /\ listed[i].id = categories'[i].id
                   /\ listed[i].name = categories'[i].name
                   /\ listed[i].color = categories'[i].color
                   /\ listed[i].taskCount =
                        Cardinality({j \in 1..Len(tasks) :
                                       tasks[j].category = categories'[i].name})
      ]_vars

\* a category was deleted (or renamed) while a task refers to it: the task is
\* still there, no listed category has its name, and other categories remain
C15_Witness ==
    /\ last.op \in {"deleteCategory", "updateCategory"} /\ last.id = "1"
    /\ tasks # <<>> /\ tasks[1].category = DEFAULT_CATEGORIES[1].name
    /\ GetTasks(localStorage) # <<>>
    /\ GetTasks(localStorage)[1].category = DEFAULT_CATEGORIES[1].name
    /\ categories # <<>>
    /\ \A i \in 1..Len(categories) : categories[i].name # tasks[1].category

\* C16: after clearAll() none of the keys tasks, categories, settings and
\* backup holds a value: getTasks() returns the empty list, getCategories()
\* the five built-in defaults in their order, and restoreBackup() fails for
\* want of a backup, writing nothing.
C16_ClearAllEmptiesStorage ==
    [][/\ last'.op = "clearAll"
            => /\ \A key \in DOMAIN localStorage' : localStorage'[key].kind = "absent"
               /\ GetTasks(localStorage') = <<>>
               /\ GetCategories(localStorage') = DEFAULT_CATEGORIES
               /\ Len(GetCategories(localStorage')) = 5
       /\ (last.op = "clearAll" /\ last'.op = "restoreBackup")
            => /\ last'.outcome = "rejected"
               /\ localStorage' = localStorage
      ]_vars

\* restoreBackup() has failed although an import had stored a backup: only
\* clearAll() can have removed it
C16_Witness ==
    /\ last.op = "restoreBackup" /\ last.outcome = "rejected"
    /\ preImport.valid
    /\ localStorage.BACKUP.kind = "absent"

\* what an item holds when it is absent, unparsable or not an array
Unreadable == {"absent", "corrupt", "primitive", "object"}

\* C17: when the item under the tasks key is absent, unparsable or not an
\* array, getTasks() returns the empty list; when the item under the
\* categories key is, getCategories() returns the five built-in defaults
\* (gongzuo, xuexi, shenghuo, gouwu, qita); loadTasks() and loadCategories()
\* then complete without error and set what was read.
C17_UnreadableStorageReadsAsDefault ==
    [][/\ localStorage'.TASKS.kind \in Unreadable => GetTasks(localStorage') = <<>>
       /\ localStorage'.CATEGORIES.kind \in Unreadable
            => LET cs == GetCategories(localStorage')
               IN  /\ cs = DEFAULT_CATEGORIES
                   /\ [i \in 1..Len(cs) |-> cs[i].name]
                        = <<"gongzuo", "xuexi", "shenghuo", "gouwu", "qita">>
       /\ last'.op = "loadTasks"
            => /\ last'.outcome = "ok"
               /\ localStorage.TASKS.kind \in Unreadable => tasks' = <<>>
       /\ last'.op = "loadCategories"
            => /\ last'.outcome = "ok"
               /\ localStorage.CATEGORIES.kind \in Unreadable
                    => categories' = DEFAULT_CATEGORIES
      ]_vars

\* both stores have loaded from items that are not arrays: the task store is
\* empty and the category store holds the defaults
C17_Witness ==
    /\ localStorage.TASKS.kind = "object"
    /\ localStorage.CATEGORIES.kind = "corrupt"
    /\ last.op = "loadTasks"
    /\ tasks = <<>>
    /\ categories = DEFAULT_CATEGORIES


\* what the filter clauses require of a task, stated on the characters
SameIgnoringCase(c, d) ==
    c = d \/ (LetterIndex(c) # 0 /\ LetterIndex(c) = LetterIndex(d))

OccursIn(query, text) ==
    \E k \in 0..(Len(text) - Len(query)) :
        \A i \in 1..Len(query) : SameIgnoringCase(text[k + i], query[i])

SatisfiesClauses(task, f) ==
    /\ \/ f.searchQuery = ""
       \/ OccursIn(Chars(f.searchQuery), Chars(task.title))
       \/ task.description # Undefined
            /\ OccursIn(Chars(f.searchQuery), Chars(task.description))
    /\ f.selectedCategory = Null \/ task.category = f.selectedCategory
    /\ \/ f.filterStatus = "all"
       \/ f.filterStatus = "completed" /\ task.completed = "true"
       \/ f.filterStatus = "todo" /\ task.completed = "false"

Occurrences(s, x) == Cardinality({i \in DOMAIN s : s[i] = x})

\* C18: in every state filteredTasks() holds each task of the store that
\* satisfies the search, category and status clauses exactly once and no
\* other task, and no change of the filter state modifies the store's tasks.
C18_FilteredTasksAreTheMatches ==
    /\ [](\A task \in ViewTasks :
            Occurrences(FilteredTasks(tasks, filters), task) =
                IF Occurrences(tasks, task) = 1 /\ SatisfiesClauses(task, filters)
                THEN 1 ELSE 0)
    /\ [][tasks' = tasks]_vars

\* a search that keeps a task for its description only and drops another
C18_Witness ==
    /\ last.op = "setSearchQuery"
    /\ filters.searchQuery = "MI"
    /\ filters.filterStatus = "completed"
    /\ \E i \in DOMAIN tasks : tasks[i].title = "Mail"
    /\ \E i \in DOMAIN tasks : tasks[i].title = "Milk"
    /\ Len(FilteredTasks(tasks, filters)) = 1
    /\ FilteredTasks(tasks, filters)[1].description = "MILK notes"

\* a sequence ordered by due date: no undated task before a dated one, and
\* the dated ones in the order of their dates
DueDateOrdered(out, order) ==
    \A i, j \in DOMAIN out :
        i < j =>
            /\ ~(out[i].dueDate \in {"", Undefined} /\ out[j].dueDate \notin {"", Undefined})
            /\ (out[i].dueDate \in DOMAIN DateStrings /\ out[j].dueDate \in DOMAIN DateStrings)
                 => IF order = "asc"
                    THEN DateStrings[out[i].dueDate] <= DateStrings[out[j].dueDate]
                    ELSE DateStrings[out[i].dueDate] >= DateStrings[out[j].dueDate]

IsPermutationOf(out, in) ==
    /\ Len(out) = Len(in)
    /\ \A i \in DOMAIN in : Occurrences(out, in[i]) = Occurrences(in, in[i])

\* C19: sortByDueDate returns, for 'asc' and for 'desc', a permutation of its
\* input with the undated tasks behind the dated ones and the dated ones in
\* ascending respectively descending order of date; so does filteredTasks()
\* when the sort key is dueDate.
C19_DueDateSortKeepsUndatedLast ==
    /\ \A order \in SortOrders :
          /\ IsPermutationOf(SortByDueDate(tasks, order), tasks)
          /\ DueDateOrdered(SortByDueDate(tasks, order), order)
    /\ filters.sortBy = "dueDate"
         => DueDateOrdered(FilteredTasks(tasks, filters), filters.sortOrder)

\* a descending sort that moves an undated task from the front to the back
\* and puts the later date first
C19_Witness ==
    /\ last.op \in {"setSortBy", "setSortOrder"}
    /\ filters.sortBy = "dueDate"
    /\ filters.sortOrder = "desc"
    /\ filters.searchQuery = ""
    /\ filters.selectedCategory = Null
    /\ filters.filterStatus = "all"
    /\ Len(tasks) = 3
    /\ tasks[1].dueDate = Undefined
    /\ tasks[2].dueDate = "2024-01-01"
    /\ tasks[3].dueDate = "2024-02-01"
    /\ FilteredTasks(tasks, filters) = <<tasks[3], tasks[2], tasks[1]>>

\* C20: filteredTasks applied to its own result, under the same filter and
\* sort state, returns that result.
C20_FilteringIsIdempotent ==
    FilteredTasks(FilteredTasks(tasks, filters), filters) = FilteredTasks(tasks, filters)

\* a result that drops a task, holds two tasks the sort key does not tell
\* apart, and is not in the store's order
C20_Witness ==
    /\ filters # DefaultFilters
    /\ Len(FilteredTasks(tasks, filters)) = 2
    /\ Len(tasks) = 3
    /\ Compare(FilteredTasks(tasks, filters)[1], FilteredTasks(tasks, filters)[2],
               filters.sortBy, filters.sortOrder) = 0
    /\ \E i \in DOMAIN tasks : tasks[i] = FilteredTasks(tasks, filters)[1] /\ i > 1
    /\ FilteredTasks(FilteredTasks(tasks, filters), filters) = FilteredTasks(tasks, filters)


\* a structurally valid Task
StructurallyValid(v) ==
    /\ v.type = "object"
    /\ Field(v, "id").type = "string" /\ Field(v, "id").val # <<>>
    /\ Field(v, "title").type = "string" /\ Field(v, "title").val # <<>>
    /\ Field(v, "priority").type = "string" /\ Field(v, "priority").val \in Priorities
    /\ Field(v, "completed").type = "boolean"
    /\ Field(v, "createdAt").type = "string"

\* C21: whatever value validateTask is given, null and values that are not
\* records included, what it returns is a structurally valid Task, never null.
C21_ValidateTaskReturnsValidTask ==
    validation.step \in {"validated", "revalidated"} => StructurallyValid(validation.output)

\* a well-formed Task: non-empty id, trimmed non-empty title, valid priority,
\* boolean completed, createdAt; description, dueDate and subtasks optional
WellFormed(v) ==
    /\ StructurallyValid(v)
    /\ Trim(Field(v, "title").val) = Field(v, "title").val
    /\ Field(v, "category").type = "string"
    /\ Field(v, "createdAt").val # <<>>
    /\ Field(v, "description").type \in {"undefined", "string"}
    /\ Field(v, "dueDate").type = "undefined"
         \/ (Field(v, "dueDate").type = "string" /\ Field(v, "dueDate").val # <<>>)
    /\ Field(v, "subtasks").type \in {"undefined", "array"}

TaskFields ==
    {"id", "title", "description", "category", "priority", "dueDate", "completed",
     "createdAt", "subtasks"}

\* C22: validateTask returns every field of a well-formed Task with the value
\* it had, and validating a result again returns that result.
C22_ValidateTaskKeepsWellFormedFields ==
    /\ (validation.step = "validated" /\ WellFormed(validation.input))
         => \A key \in TaskFields :
               Field(validation.input, key).type # "undefined"
                  => /\ Field(validation.output, key).type = Field(validation.input, key).type
                     /\ Field(validation.output, key).val = Field(validation.input, key).val
    /\ validation.step = "revalidated"
         => /\ validation.output.type = validation.input.type
            /\ validation.output.type = "object"
                 => \A key \in TaskFields :
                       /\ Field(validation.output, key).type = Field(validation.input, key).type
                       /\ Field(validation.output, key).val = Field(validation.input, key).val


\* what a call makes of the collection ts, computed from its arguments
ApplyCall(c, ts) ==
    CASE c.op = "addTask" -> AddTaskMem(ts, TaskInputs[c.args.idx], c.at)
      [] c.op = "updateTask" -> UpdateTaskMem(ts, c.args.id, TaskUpdates[c.args.idx])
      [] c.op = "deleteTask" -> DeleteTaskMem(ts, c.args.id)
      [] OTHER -> ts

\* two mutations, the second started while the first was suspended, have
\* both settled
TwoOverlappedSettled ==
    /\ Len(calls) = 2
    /\ \A i \in DOMAIN calls : calls[i].settled

Ids(ts) == [i \in 1..Len(ts) |-> ts[i].id]

\* C23: when a second mutation is invoked while an earlier one is suspended
\* at its await, the final in-memory collection is what the two mutations
\* make of the collection in invocation order, and the final durable copy
\* holds the same tasks as the in-memory collection.
C23_OverlappingMutationsDoNotInterleave ==
    TwoOverlappedSettled
        => /\ tasks = ApplyCall(calls[2], ApplyCall(calls[1], calls[1].before))
           /\ Ids(GetTasks(localStorage)) = Ids(tasks)

\* C23, with the write failures taken into account: memory is as above, and
\* the durable copy is the stored form of the in-memory collection, the
\* second mutation's included, when the second write succeeded, and is what
\* it was before the second mutation when that write failed.
C23_OverlappingMutationsApplyInOrder ==
    /\ [](TwoOverlappedSettled
            => /\ tasks = ApplyCall(calls[2], ApplyCall(calls[1], calls[1].before))
               /\ ~calls[2].wfail => GetTasks(localStorage) = StoredForm(tasks))
    /\ [][(Len(calls') = 2 /\ Len(calls) = 1 /\ calls'[2].wfail)
            => localStorage' = localStorage]_vars

\* an addTask and an updateTask of the task just added overlap, both writes
\* succeed, and the update settles first
C23_Witness ==
    /\ TwoOverlappedSettled
    /\ calls[1].op = "addTask" /\ calls[2].op = "updateTask"
    /\ ~calls[1].wfail /\ ~calls[2].wfail
    /\ last.op = "addTask"
    /\ Len(tasks) = 1
    /\ tasks[1].id = calls[2].args.id
    /\ tasks # ApplyCall(calls[1], calls[1].before)
    /\ GetTasks(localStorage) = StoredForm(tasks)


\* loadTasks was suspended after its read when a mutation was invoked, the
\* mutation's write succeeded, and both have settled
MutationDuringLoadSettled ==
    /\ Len(calls) = 2
    /\ \A i \in DOMAIN calls : calls[i].settled
    /\ calls[1].op = "loadTasks"
    /\ calls[2].op \in {"addTask", "deleteTask"}
    /\ ~calls[2].wfail

\* C25: a mutation invoked after loadTasks() has read storage and before it
\* has set the collection is not lost: once both have completed, the
\* in-memory collection shows the mutation (the added task is there, the
\* deleted task is not) and holds the same tasks as the durable copy.
C25_MutationDuringLoadIsKept ==
    MutationDuringLoadSettled
        => /\ calls[2].op = "addTask"
                => \E i \in 1..Len(tasks) : tasks[i].id = DateNowString(calls[2].at)
           /\ calls[2].op = "deleteTask"
                => \A i \in 1..Len(tasks) : tasks[i].id # calls[2].args.id
           /\ Ids(tasks) = Ids(GetTasks(localStorage))


BatchOps ==
    {"toggleAllTasks", "clearCompleted", "deleteCompleted", "bulkUpdateTasks",
     "bulkDeleteTasks"}

TwoHookCallsSettled ==
    /\ hook.mounted
    /\ Len(hook.saves) = 2
    /\ \A i \in DOMAIN hook.saves : hook.saves[i].settled /\ ~hook.saves[i].wfail
    /\ hook.saves[2].before = hook.saves[1].before

\* C26: when addTask, updateTask or deleteTask of the useTasks hook is called
\* twice before the hook re-renders with the result of the first call, both
\* changes are in the hook's task list and in the stored list once both
\* calls have completed.
C26_HookKeepsBothUpdates ==
    TwoHookCallsSettled
        => /\ hook.state = ApplyCall(hook.saves[2],
                                     ApplyCall(hook.saves[1], hook.saves[1].before))
           /\ Ids(GetTasks(localStorage)) = Ids(hook.state)


\* C27: when a write fails during importData (the backup, the tasks or the
\* categories), importData rejects and getTasks() and getCategories() return
\* what they returned before the call.
C27_ImportDataAllOrNothing ==
    [][(last'.op = "importData" /\ last'.wfail)
          => /\ last'.outcome = "rejected"
             /\ GetTasks(localStorage') = GetTasks(localStorage)
             /\ GetCategories(localStorage') = GetCategories(localStorage)]_vars


SaveFirstOps == {"resetTasks", "importTasks", "importCategories"}

\* C28: when the write of resetTasks, importTasks or importCategories fails,
\* the operation rejects, both in-memory collections and storage are what
\* they were before the call, and a collection that was equal to its durable
\* copy is still equal to it.
C28_FailedImportKeepsMemory ==
    [][(last'.op \in SaveFirstOps /\ last'.wfail)
          => /\ last'.outcome = "rejected"
             /\ tasks' = tasks
             /\ categories' = categories
             /\ localStorage' = localStorage
             /\ GetTasks(localStorage) = StoredForm(tasks)
                  => GetTasks(localStorage') = StoredForm(tasks')
             /\ GetCategories(localStorage) = categories
                  => GetCategories(localStorage') = categories'
      ]_vars

\* a resetTasks whose write failed over a store that holds an imported task
\* and the categories it has stored: the task is still in memory and stored
C28_Witness ==
    /\ last.op = "resetTasks" /\ last.wfail /\ last.outcome = "rejected"
    /\ tasks = <<ImportedTask>>
    /\ GetTasks(localStorage) = StoredForm(tasks)
    /\ Len(categories) > 0
    /\ localStorage.CATEGORIES.kind = "array"
    /\ GetCategories(localStorage) = categories


\* C29: importData(exportData()) leaves what getTasks() and getCategories()
\* return unchanged, and saveTasks(getTasks()) leaves the stored task list
\* unchanged, whatever saveTasks and saveCategories had stored.
C29_ExportImportIsIdentity ==
    [][/\ last'.op = "importExported"
            => /\ GetTasks(localStorage') = GetTasks(localStorage)
               /\ GetCategories(localStorage') = GetCategories(localStorage)
       /\ last'.op = "resaveTasks"
            => /\ GetTasks(localStorage') = GetTasks(localStorage)
               /\ localStorage.TASKS.kind = "array"
                    => localStorage'.TASKS = localStorage.TASKS
      ]_vars

\* an export and import, all writes succeeding and after the clock has
\* moved, of a stored task whose description is empty and whose due date is
\* absent, next to stored categories that are not the defaults
C29_Witness ==
    /\ last.op = "importExported" /\ last.outcome = "ok"
    /\ now > 0
    /\ localStorage.BACKUP.kind = "object"
    /\ Len(GetTasks(localStorage)) > 0
    /\ GetTasks(localStorage)[1].description = ""
    /\ GetTasks(localStorage)[1].dueDate = Undefined
    /\ GetTasks(localStorage)[1].id = ImportedTask.id
    /\ localStorage.CATEGORIES.kind = "array"
    /\ GetCategories(localStorage) # DEFAULT_CATEGORIES


\* C30: a stored category list is what getCategories() returns, the empty
\* list included: when deleteCategory removes the last category, storage
\* holds the empty list, getCategories() returns it and not the five
\* defaults, and a loadCategories() that follows leaves the store empty.
C30_EmptyCategoriesStayEmpty ==
    /\ [](localStorage.CATEGORIES.kind = "array"
            => GetCategories(localStorage) = localStorage.CATEGORIES.val)
    /\ [][/\ (last'.op = "deleteCategory" /\ last'.outcome = "ok" /\ categories' = <<>>)
               => /\ localStorage'.CATEGORIES = StringifyArray(<<>>)
                  /\ GetCategories(localStorage') = <<>>
          /\ (last'.op = "loadCategories" /\ last.op = "deleteCategory"
                /\ last.outcome = "ok" /\ categories = <<>>)
               => categories' = <<>>
         ]_vars

\* the store loaded after the deletion of its only category, added earlier:
\* it is empty and storage holds the empty list
C30_Witness ==
    /\ last.op = "loadCategories"
    /\ categories = <<>>
    /\ localStorage.CATEGORIES = StringifyArray(<<>>)
    /\ GetCategories(localStorage) # DEFAULT_CATEGORIES
    /\ now > 0
    /\ writeFailures = 0

====
